---- MODULE Spec2Model ----
(***************************************************************************)
(* Model of the HVE hardware video encoder library (src/hve.c, src/hve.h)  *)
(* and of the encoding loop of its example program.                        *)
(*                                                                         *)
(* A pointer is a sequence: NULL is << >> and a pointer to an object x is  *)
(* <<x>>.  A pixel format is represented by the component depths of its    *)
(* descriptor (all the library ever reads of a format); the hardware       *)
(* formats are named by strings.  Every library function is an operator    *)
(* from a "world" record (the struct hve, the backend's state, the live    *)
(* resources and the log of backend calls) to the world after the call;    *)
(* the outcomes of the backend calls are inputs of the operator.           *)
(***************************************************************************)
EXTENDS Integers, Sequences, FiniteSets, TLC

\* ------------------------------------------------------------------ bounds
MaxB == 1           \* max_b_frames is drawn from 0..MaxB
MaxFrames == 3      \* real frames one caller submits
\* NULL frames a caller sends to one pipeline
MaxNulls == 2

MaxFlush == 1       \* NULL frames one caller submits

\* ------------------------------------------------------- program constants
HVE_OK == 0
HVE_ERROR == 0 - 1
PoolSize == 20
INT_MAX == 2147483647

NULL == << >>
Ptr(x) == <<x>>
Deref(p) == p[1]

\* backend status codes (only their sign and identity matter)
OK == "0"
EAGAIN == "EAGAIN"
AVEOF == "EOF"
EFAIL == "EFAIL"
IsNeg(st) == st # OK

\* pixel formats, by the component depths of their descriptors
AV_PIX_FMT_NONE == <<0 - 1>>
AV_PIX_FMT_NV12 == <<8, 8, 8>>
AV_PIX_FMT_P010LE == <<10, 10, 10>>
AV_PIX_FMT_CUDA == "CUDA"
AV_PIX_FMT_VAAPI == "VAAPI"

\* ------------------------------------------------------------------ inputs
Depths == {8, 10, 12}
\* descriptors of the software formats a caller may name: no component (a
\* hardware format such as "cuda"), one, two or three components
PixDescs ==
  {<< >>} \cup {<<a>> : a \in Depths} \cup {<<a, b>> : a \in Depths, b \in Depths}
    \cup {AV_PIX_FMT_NV12, AV_PIX_FMT_P010LE, <<8, 10, 8>>, <<12, 10, 10>>}

\* config->pixel_format: NULL or "", a name FFmpeg does not know, a known name
PixelFormats ==
  {[name |-> "null", desc |-> << >>], [name |-> "unknown", desc |-> << >>]}
    \cup {[name |-> "known", desc |-> d] : d \in PixDescs}

Width == 2
Height == 3
InputWidths == {0, Width, Width + 2}
InputHeights == {0, Height, Height + 2}

Configs ==
  [width : {Width}, height : {Height},
   input_width : InputWidths, input_height : InputHeights,
   framerate : {30}, pixel_format : PixelFormats,
   max_b_frames : 0..MaxB, bit_rate : {0, 1000}, qp : {0, 20}, low_power : {0, 1}]

\* the steps of hve_init that can fail for a reason outside the library
InitSteps ==
  {"malloc", "hwdevice_ctx_create", "find_encoder", "alloc_context3",
   "hwframe_ctx_alloc", "hwframe_ctx_init", "frames_ref",
   "dict_qp", "dict_low_power", "avcodec_open2",
   "get_buffer", "get_buffersink", "inout_alloc_ins", "inout_alloc_outs",
   "graph_alloc", "create_src", "par_alloc", "par_set", "create_sink",
   "parse_ptr", "filter_dev_ref", "graph_config",
   "fr_frame_alloc", "sw_frame_alloc"}
InitFails == InitSteps \cup {"none"}

\* ------------------------------------------------------------ the world
zero_hve ==
  [sw_pix_fmt |-> AV_PIX_FMT_NONE, hw_device_ctx |-> NULL, avctx |-> NULL,
   buffersrc_ctx |-> NULL, buffersink_ctx |-> NULL, filter_graph |-> NULL,
   sw_frame |-> NULL, hw_frame |-> NULL, fr_frame |-> NULL,
   enc_pkt |-> [data |-> 0, size |-> 0]]

NoLive ==
  [hve |-> 0, device |-> 0, codec |-> 0, frames |-> 0, dict |-> 0, graph |-> 0,
   inout |-> 0, avframe |-> 0, surface |-> 0, packet |-> 0]

EncIdle == [queued |-> 0, out |-> 0, flushing |-> FALSE, max_b_frames |-> 0]
ScalerIdle == [buffered |-> 0, eof |-> FALSE]

World0 ==
  [h |-> zero_hve, enc |-> EncIdle, scaler |-> ScalerIdle, live |-> NoLive,
   ops |-> << >>]

Log(s, op) == [s EXCEPT !.ops = Append(@, op)]
Acquire(s, kind) == [Log(s, <<"acquire", kind>>) EXCEPT !.live[kind] = @ + 1]
Release(s, kind) == [Log(s, <<"release", kind>>) EXCEPT !.live[kind] = @ - 1]
TotalLive(l) ==
  l.hve + l.device + l.codec + l.frames + l.dict + l.graph + l.inout
    + l.avframe + l.surface + l.packet

\* ------------------------------------------------------------- hve_close
\* av_packet_unref(&h->enc_pkt)
av_packet_unref(s) ==
  IF s.h.enc_pkt.data = 0 THEN s
  ELSE [Release(s, "packet") EXCEPT !.h.enc_pkt = [data |-> 0, size |-> 0]]

\* a slip a maintainer could make: the frame is freed where it should only
\* give its surface back
av_frame_unref_frees(s, field) ==
  IF Deref(s.h[field]).buf
    THEN [Release(Release(s, "surface"), "avframe") EXCEPT !.h[field] = NULL]
    ELSE s

\* av_frame_unref(frame): gives the surface the frame holds back
av_frame_unref(s, field) ==
  IF Deref(s.h[field]).buf
    THEN [Release(s, "surface") EXCEPT
            !.h[field] = Ptr([Deref(@) EXCEPT !.buf = FALSE, !.hw_frames_ctx = FALSE])]
    ELSE s

\* av_frame_free(&h->field): a no-op on NULL, else unref, free and set to NULL
av_frame_free(s, field) ==
  IF s.h[field] = NULL THEN s
  ELSE [Release(Log(av_frame_unref(s, field), <<"av_frame_free", field>>), "avframe")
          EXCEPT !.h[field] = NULL]

RECURSIVE ReleaseN(_, _, _)
ReleaseN(s, kind, n) == IF n = 0 THEN s ELSE ReleaseN(Release(s, kind), kind, n - 1)

\* avfilter_graph_free(&h->filter_graph): frees the filters (and the device
\* references line 301 gave them) and the graph
avfilter_graph_free(s) ==
  IF s.h.filter_graph = NULL THEN s
  ELSE [Release(ReleaseN(s, "device", Deref(s.h.filter_graph).dev_refs), "graph")
          EXCEPT !.h.filter_graph = NULL, !.scaler = ScalerIdle]

\* avcodec_free_context(&h->avctx): closes the session and drops its pool reference
avcodec_free_context(s) ==
  IF s.h.avctx = NULL THEN s
  ELSE LET s1 == IF Deref(s.h.avctx).hw_frames_ctx # NULL THEN Release(s, "frames") ELSE s
       IN  [Release(s1, "codec") EXCEPT !.h.avctx = NULL, !.enc = EncIdle]

\* av_buffer_unref(&h->hw_device_ctx)
av_buffer_unref_device(s) ==
  IF s.h.hw_device_ctx = NULL THEN s
  ELSE [Release(s, "device") EXCEPT !.h.hw_device_ctx = NULL]

\* a slip a maintainer could make: the encoder session goes before the graph
hve_close_codec_first(s, hp) ==
  IF hp = NULL THEN s
  ELSE
    LET s1 == av_packet_unref(s)
        s2 == av_frame_free(s1, "sw_frame")
        s3 == av_frame_free(s2, "fr_frame")
        s4 == av_frame_free(s3, "hw_frame")
        s5 == avcodec_free_context(s4)
        s6 == avfilter_graph_free(s5)
        s7 == av_buffer_unref_device(s6)
    IN  Release(s7, "hve")

\* a slip a maintainer could make: the in-flight surface is forgotten
hve_close_keep_hw_frame(s, hp) ==
  IF hp = NULL THEN s
  ELSE
    LET s1 == av_packet_unref(s)
        s2 == av_frame_free(s1, "sw_frame")
        s3 == av_frame_free(s2, "fr_frame")
        s5 == avfilter_graph_free(s3)
        s6 == avcodec_free_context(s5)
        s7 == av_buffer_unref_device(s6)
    IN  Release(s7, "hve")

\* a slip a maintainer could make: the device goes before the encoder session
hve_close_device_first(s, hp) ==
  IF hp = NULL THEN s
  ELSE
    LET s1 == av_packet_unref(s)
        s2 == av_frame_free(s1, "sw_frame")
        s3 == av_frame_free(s2, "fr_frame")
        s4 == av_frame_free(s3, "hw_frame")
        s5 == avfilter_graph_free(s4)
        s6 == av_buffer_unref_device(s5)
        s7 == avcodec_free_context(s6)
    IN  Release(s7, "hve")

hve_close(s, hp) ==
  IF hp = NULL THEN s
  ELSE
    LET s1 == av_packet_unref(s)
        s2 == av_frame_free(s1, "sw_frame")
        s3 == av_frame_free(s2, "fr_frame")
        s4 == av_frame_free(s3, "hw_frame")
        s5 == avfilter_graph_free(s4)
        s6 == avcodec_free_context(s5)
        s7 == av_buffer_unref_device(s6)
    IN  Release(s7, "hve")

\* ------------------------------------------------------ pixel format depth
FFMAX(a, b) == IF a > b THEN a ELSE b

\* av_get_pix_fmt(name): AV_PIX_FMT_NONE for a name FFmpeg does not know
av_get_pix_fmt(pixel_format) ==
  IF pixel_format.name = "known" THEN pixel_format.desc ELSE AV_PIX_FMT_NONE

\* av_pix_fmt_desc_get(pix_fmt): NULL for an invalid format
av_pix_fmt_desc_get(pix_fmt) ==
  IF pix_fmt = AV_PIX_FMT_NONE THEN NULL ELSE Ptr(pix_fmt)

RECURSIVE DepthLoop(_, _, _)
DepthLoop(comp, i, depth) ==
  IF i > Len(comp) THEN depth ELSE DepthLoop(comp, i + 1, FFMAX(comp[i], depth))

\* a slip a maintainer could make: the depth of the first component only
hve_pixel_format_depth_first(pix_fmt) ==
  LET desc == av_pix_fmt_desc_get(pix_fmt)
  IN  IF desc = NULL \/ Len(Deref(desc)) = 0
        THEN [ret |-> HVE_ERROR, depth |-> 0]
        ELSE [ret |-> HVE_OK, depth |-> Deref(desc)[1]]

hve_pixel_format_depth(pix_fmt) ==
  LET desc == av_pix_fmt_desc_get(pix_fmt)
  IN  IF desc = NULL \/ Len(Deref(desc)) = 0
        THEN [ret |-> HVE_ERROR, depth |-> 0]
        ELSE [ret |-> HVE_OK, depth |-> DepthLoop(Deref(desc), 1, 0 - INT_MAX)]

\* ---------------------------------------------------- init_hwframes_context
\* a slip a maintainer could make: the pool is always as wide as the output
PoolWidth_output(config) == config.width

\* lines 202-203: the dimensions of the pool's surfaces
PoolWidth(config) ==
  IF config.input_width # 0 THEN config.input_width ELSE config.width
PoolHeight(config) ==
  IF config.input_height # 0 THEN config.input_height ELSE config.height

\* lines 199-222: the pool's parameters; d is the result of the depth lookup
FramesCtx(config, d) ==
  [format |-> AV_PIX_FMT_CUDA, width |-> PoolWidth(config), height |-> PoolHeight(config),
   initial_pool_size |-> PoolSize,
   sw_format |-> IF d.depth = 10 THEN AV_PIX_FMT_P010LE ELSE AV_PIX_FMT_NV12]

\* lines 218-236, after av_hwframe_ctx_alloc gave hw_frames_ref (held in s)
InitPool(s, config, fail, d) ==
  IF d.ret # HVE_OK
    THEN [s |-> s, err |-> HVE_ERROR]                \* line 219: no av_buffer_unref
  ELSE IF fail = "hwframe_ctx_init" \/ fail = "frames_ref"
    THEN [s |-> Release(s, "frames"), err |-> HVE_ERROR]
  ELSE [s |-> Release([Acquire(s, "frames") EXCEPT
                         !.h.avctx = Ptr([Deref(@) EXCEPT
                                            !.hw_frames_ctx = Ptr(FramesCtx(config, d))])],
                      "frames"),
        err |-> HVE_OK]

init_hwframes_context(s, config, fail) ==
  IF fail = "hwframe_ctx_alloc" THEN [s |-> s, err |-> HVE_ERROR]
  ELSE InitPool(Acquire(s, "frames"), config, fail,
                hve_pixel_format_depth(s.h.sw_pix_fmt))

\* ---------------------------------------------------- init_hardware_scaling
\* The function is run step by step on g: the world s, the locals ins and
\* outs (TRUE when not NULL) and, once done, the value err returned.

\* HVE_ERROR_MSG_FILTER(ins, outs, msg): frees ins and outs
HVE_ERROR_MSG_FILTER(g) ==
  [g EXCEPT !.s = ReleaseN(g.s, "inout", (IF g.ins THEN 1 ELSE 0) + (IF g.outs THEN 1 ELSE 0)),
            !.ins = FALSE, !.outs = FALSE, !.err = HVE_ERROR, !.done = TRUE]

EmptyGraph ==
  [nb_filters |-> 0, dev_refs |-> 0, src |-> NULL, sink |-> FALSE, desc |-> NULL,
   configured |-> FALSE]

SetGraph(s, g) == [s EXCEPT !.h.filter_graph = Ptr(g)]
Graph(s) == Deref(s.h.filter_graph)
AcquireIf(s, kind, yes) == IF yes THEN Acquire(s, kind) ELSE s

\* lines 246-250: the two filters are looked up
scaling_lookup(g, config, fail) ==
  IF fail = "get_buffer" \/ fail = "get_buffersink"
    THEN [g EXCEPT !.err = HVE_ERROR, !.done = TRUE]
    ELSE g

\* lines 253-258: ins, outs and the graph are allocated, then checked together
scaling_alloc(g, config, fail) ==
  LET ins == fail # "inout_alloc_ins"
      outs == fail # "inout_alloc_outs"
      graph == fail # "graph_alloc"
      a == AcquireIf(AcquireIf(AcquireIf(g.s, "inout", ins), "inout", outs), "graph", graph)
      g1 == [g EXCEPT !.s = IF graph THEN SetGraph(a, EmptyGraph) ELSE a,
                      !.ins = ins, !.outs = outs]
  IN  IF ins /\ outs /\ graph THEN g1 ELSE HVE_ERROR_MSG_FILTER(g1)

\* lines 260-270: the source node, with the arguments of line 261
scaling_source(g, config, fail) ==
  IF fail = "create_src" THEN HVE_ERROR_MSG_FILTER(g)
  ELSE [g EXCEPT !.s = [SetGraph(g.s, [Graph(g.s) EXCEPT
                           !.nb_filters = @ + 1,
                           !.src = Ptr([video_size |-> <<config.input_width, config.input_height>>,
                                        pix_fmt |-> AV_PIX_FMT_VAAPI,
                                        time_base |-> config.framerate,
                                        hw_frames_ctx |-> NULL])])
                          EXCEPT !.h.buffersrc_ctx = Ptr("in")]]

\* lines 272-283: the source node is bound to the encoder's pool
scaling_params(g, config, fail) ==
  IF fail = "par_alloc" \/ fail = "par_set" THEN HVE_ERROR_MSG_FILTER(g)
  ELSE [g EXCEPT !.s = SetGraph(g.s, [Graph(g.s) EXCEPT
                          !.src = Ptr([Deref(@) EXCEPT
                                  !.hw_frames_ctx = Deref(g.s.h.avctx).hw_frames_ctx])])]

\* lines 285-292: the sink node
scaling_sink(g, config, fail) ==
  IF fail = "create_sink" THEN HVE_ERROR_MSG_FILTER(g)
  ELSE [g EXCEPT !.s = [SetGraph(g.s, [Graph(g.s) EXCEPT !.nb_filters = @ + 1,
                                                         !.sink = TRUE])
                          EXCEPT !.h.buffersink_ctx = Ptr("out")]]

\* lines 294-298: the graph "format,scale" is parsed; it takes ins and outs over
scaling_parse(g, config, fail) ==
  IF fail = "parse_ptr" THEN HVE_ERROR_MSG_FILTER(g)
  ELSE [g EXCEPT !.s = SetGraph(ReleaseN(g.s, "inout", 2),
                          [Graph(g.s) EXCEPT
                             !.nb_filters = @ + 2,
                             !.desc = Ptr([format |-> "vaapi", scale |-> "scale_vaapi",
                                           w |-> config.width, h |-> config.height])]),
                  !.ins = FALSE, !.outs = FALSE]

RECURSIVE RefFilters(_, _, _)
RefFilters(s, i, n) ==
  IF i = n THEN s
  ELSE RefFilters(SetGraph(Acquire(s, "device"), [Graph(s) EXCEPT !.dev_refs = @ + 1]),
                  i + 1, n)

\* lines 300-302: every filter is given a reference to the device; a failure
\* is the second av_buffer_ref failing
scaling_device(g, config, fail) ==
  IF fail = "filter_dev_ref"
    THEN HVE_ERROR_MSG_FILTER([g EXCEPT !.s = RefFilters(g.s, 0, 1)])
    ELSE [g EXCEPT !.s = RefFilters(g.s, 0, Graph(g.s).nb_filters)]

\* lines 304-310: the graph is configured
scaling_config(g, config, fail) ==
  IF fail = "graph_config" THEN HVE_ERROR_MSG_FILTER(g)
  ELSE [g EXCEPT !.s = SetGraph(g.s, [Graph(g.s) EXCEPT !.configured = TRUE]),
                 !.err = HVE_OK, !.done = TRUE]

scaling_step(k, g, config, fail) ==
  CASE k = 1 -> scaling_lookup(g, config, fail)
    [] k = 2 -> scaling_alloc(g, config, fail)
    [] k = 3 -> scaling_source(g, config, fail)
    [] k = 4 -> scaling_params(g, config, fail)
    [] k = 5 -> scaling_sink(g, config, fail)
    [] k = 6 -> scaling_parse(g, config, fail)
    [] k = 7 -> scaling_device(g, config, fail)
    [] OTHER -> scaling_config(g, config, fail)

RECURSIVE RunScaling(_, _, _, _)
RunScaling(k, g, config, fail) ==
  IF g.done THEN g ELSE RunScaling(k + 1, scaling_step(k, g, config, fail), config, fail)

init_hardware_scaling(s, config, fail) ==
  RunScaling(1, [s |-> s, ins |-> FALSE, outs |-> FALSE, err |-> HVE_OK, done |-> FALSE],
             config, fail)

\* ---------------------------------------------------------------- hve_init
\* The function is run step by step on st: the world s, the local opts (the
\* keys of the dictionary) and, once done, the pointer h returned.

\* return hve_close_and_return_null(h, msg)
InitFail(st) == [st EXCEPT !.s = hve_close(st.s, Ptr("h")), !.h = NULL, !.done = TRUE]

\* lines 63-66
init_malloc(st, config, fail) ==
  IF fail = "malloc"
    THEN [st EXCEPT !.s = hve_close(st.s, NULL), !.h = NULL, !.done = TRUE]
    ELSE [st EXCEPT !.s = [Acquire(st.s, "hve") EXCEPT !.h = zero_hve]]

\* lines 73-76
init_device(st, config, fail) ==
  IF fail = "hwdevice_ctx_create" THEN InitFail(st)
  ELSE [st EXCEPT !.s = [Acquire(st.s, "device") EXCEPT !.h.hw_device_ctx = Ptr("device")]]

\* lines 78-104: the encoder is looked up and its context filled in
init_codec(st, config, fail) ==
  IF fail = "find_encoder" \/ fail = "alloc_context3" THEN InitFail(st)
  ELSE [st EXCEPT !.s = [Acquire(st.s, "codec") EXCEPT
          !.h.avctx = Ptr([width |-> config.width, height |-> config.height,
                           pix_fmt |-> AV_PIX_FMT_CUDA,
                           max_b_frames |-> config.max_b_frames,
                           bit_rate |-> config.bit_rate, hw_frames_ctx |-> NULL,
                           opened |-> FALSE, opts |-> {}])]]

\* a slip a maintainer could make: a plain return NULL for an unknown format
init_pixel_format_no_close(st, config, fail) ==
  IF config.pixel_format.name = "null"
    THEN [st EXCEPT !.s.h.sw_pix_fmt = AV_PIX_FMT_NV12]
  ELSE IF av_get_pix_fmt(config.pixel_format) = AV_PIX_FMT_NONE
    THEN [st EXCEPT !.s.h.sw_pix_fmt = AV_PIX_FMT_NONE, !.h = NULL, !.done = TRUE]
  ELSE [st EXCEPT !.s.h.sw_pix_fmt = av_get_pix_fmt(config.pixel_format)]

\* lines 106-113: the software pixel format
init_pixel_format(st, config, fail) ==
  IF config.pixel_format.name = "null"
    THEN [st EXCEPT !.s.h.sw_pix_fmt = AV_PIX_FMT_NV12]
  ELSE IF av_get_pix_fmt(config.pixel_format) = AV_PIX_FMT_NONE
    THEN InitFail([st EXCEPT !.s.h.sw_pix_fmt = AV_PIX_FMT_NONE])
  ELSE [st EXCEPT !.s.h.sw_pix_fmt = av_get_pix_fmt(config.pixel_format)]

\* the result r of a helper is taken over; a negative err fails hve_init
InitChecked(st, r) == IF r.err < 0 THEN InitFail([st EXCEPT !.s = r.s]) ELSE [st EXCEPT !.s = r.s]

\* a slip a maintainer could make: the helper's error is not looked at
InitUnchecked(st, r) == [st EXCEPT !.s = r.s]

\* lines 115-116
init_pool(st, config, fail) == InitChecked(st, init_hwframes_context(st.s, config, fail))

\* lines 118-121: the option qp; a failed first av_dict_set frees the dictionary
init_opt_qp(st, config, fail) ==
  IF config.qp = 0 THEN st
  ELSE IF fail = "dict_qp" THEN InitFail(st)
  ELSE [st EXCEPT !.s = Acquire(st.s, "dict"), !.opts = {"qp"}]

\* lines 123-124: the option low_power; on failure opts is not freed
init_opt_low_power(st, config, fail) ==
  IF config.low_power = 0 THEN st
  ELSE IF fail = "dict_low_power" THEN InitFail(st)
  ELSE [st EXCEPT !.s = AcquireIf(st.s, "dict", st.opts = {}),
                  !.opts = @ \cup {"low_power"}]

\* av_dict_free(&opts)
av_dict_free(st) ==
  [st EXCEPT !.s = IF st.opts # {} THEN Release(st.s, "dict") ELSE st.s, !.opts = {}]

\* lines 126-137: the encoder is opened with the options
init_open(st, config, fail) ==
  IF fail = "avcodec_open2" THEN InitFail(av_dict_free(st))
  ELSE av_dict_free(
         [st EXCEPT !.s.h.avctx = Ptr([Deref(@) EXCEPT !.opened = TRUE, !.opts = st.opts]),
                    !.s.enc = [queued |-> 0, out |-> 0, flushing |-> FALSE,
                               max_b_frames |-> Deref(st.s.h.avctx).max_b_frames]])

\* lines 139-140: is hardware scaling requested
ScalingRequested_any_difference(config) ==
  config.input_width # config.width \/ config.input_height # config.height

ScalingRequested(config) ==
  \/ (config.input_width # 0 /\ config.input_width # config.width)
  \/ (config.input_height # 0 /\ config.input_height # config.height)

\* a slip a maintainer could make: a graph that failed to build is kept
init_scaling_unchecked(st, config, fail) ==
  IF ScalingRequested(config)
    THEN InitUnchecked(st, init_hardware_scaling(st.s, config, fail))
    ELSE st

\* lines 139-142
init_scaling(st, config, fail) ==
  IF ScalingRequested(config)
    THEN InitChecked(st, init_hardware_scaling(st.s, config, fail))
    ELSE st

\* lines 144-146: the filter's staging frame, if there is a graph
init_fr_frame(st, config, fail) ==
  IF st.s.h.filter_graph = NULL THEN st
  ELSE IF fail = "fr_frame_alloc" THEN InitFail(st)
  ELSE [st EXCEPT !.s = [Acquire(st.s, "avframe") EXCEPT
                           !.h.fr_frame = Ptr([buf |-> FALSE, hw_frames_ctx |-> FALSE])]]

\* lines 151-152: the dimensions of the software staging frame
SwFrameWidth_raw(config) == config.input_width

SwFrameWidth(config) ==
  IF config.input_width # 0 THEN config.input_width ELSE config.width
SwFrameHeight(config) ==
  IF config.input_height # 0 THEN config.input_height ELSE config.height

\* lines 148-159: the software staging frame and the packet
init_sw_frame(st, config, fail) ==
  IF fail = "sw_frame_alloc" THEN InitFail(st)
  ELSE [st EXCEPT
          !.s = [Acquire(st.s, "avframe") EXCEPT
                   !.h.sw_frame = Ptr([buf |-> FALSE, hw_frames_ctx |-> FALSE,
                                       width |-> SwFrameWidth(config),
                                       height |-> SwFrameHeight(config),
                                       format |-> st.s.h.sw_pix_fmt,
                                       data |-> "null", linesize |-> 0]),
                   !.h.enc_pkt = [data |-> 0, size |-> 0]],
          !.h = Ptr("h"), !.done = TRUE]

hve_init_step(k, st, config, fail) ==
  CASE k = 1 -> init_malloc(st, config, fail)
    [] k = 2 -> init_device(st, config, fail)
    [] k = 3 -> init_codec(st, config, fail)
    [] k = 4 -> init_pixel_format(st, config, fail)
    [] k = 5 -> init_pool(st, config, fail)
    [] k = 6 -> init_opt_qp(st, config, fail)
    [] k = 7 -> init_opt_low_power(st, config, fail)
    [] k = 8 -> init_open(st, config, fail)
    [] k = 9 -> init_scaling(st, config, fail)
    [] k = 10 -> init_fr_frame(st, config, fail)
    [] OTHER -> init_sw_frame(st, config, fail)

RECURSIVE RunInit(_, _, _, _)
RunInit(k, st, config, fail) ==
  IF st.done THEN st ELSE RunInit(k + 1, hve_init_step(k, st, config, fail), config, fail)

\* hve_init(config): the world after the call (s) and the pointer returned (h)
hve_init(s0, config, fail) ==
  RunInit(1, [s |-> [s0 EXCEPT !.ops = << >>], h |-> NULL, opts |-> {}, done |-> FALSE],
          config, fail)

\* ------------------------------------------------------------ the backend
\* What the library is told by FFmpeg.  "forced" is a failure the environment
\* injects into the call (a driver error, no memory).

\* frames the encoder session can hold before it refuses input with EAGAIN:
\* the frames it reorders and one more
EncCapacity(e) == e.max_b_frames + 2

\* avcodec_send_frame(h->avctx, frame): which is "NULL", "hw_frame" or "fr_frame"
avcodec_send_frame(s, which, forced) ==
  LET st == IF s.enc.flushing THEN AVEOF
            ELSE IF forced THEN EFAIL
            ELSE IF which = "NULL" THEN OK
            ELSE IF s.enc.queued >= EncCapacity(s.enc) THEN EAGAIN
            ELSE OK
      e == IF st # OK THEN s.enc
           ELSE IF which = "NULL" THEN [s.enc EXCEPT !.flushing = TRUE]
           ELSE [s.enc EXCEPT !.queued = @ + 1]
  IN  [s |-> [Log(s, <<"avcodec_send_frame", which, st>>) EXCEPT !.enc = e], err |-> st]

\* avcodec_receive_packet(h->avctx, &h->enc_pkt): the packet is unreferenced
\* first, whatever follows; "ready" is the encoder's choice to emit a packet
\* while it may still hold frames back (at most max_b_frames + 1 of them)
avcodec_receive_packet(s, forced, ready) ==
  LET s1 == av_packet_unref(s)
      e == s1.enc
      st == IF forced THEN EFAIL
            ELSE IF e.flushing THEN (IF e.queued > 0 THEN OK ELSE AVEOF)
            ELSE IF e.queued = 0 THEN EAGAIN
            ELSE IF e.queued > e.max_b_frames + 1 THEN OK
            ELSE IF ready THEN OK ELSE EAGAIN
      s2 == Log(s1, <<"avcodec_receive_packet", st>>)
  IN  IF st = OK
        THEN [s |-> [Acquire(s2, "packet") EXCEPT
                       !.enc.queued = @ - 1, !.enc.out = @ + 1,
                       !.h.enc_pkt = [data |-> e.out + 1, size |-> 1]],
              err |-> st]
        ELSE [s |-> s2, err |-> st]

\* av_buffersrc_add_frame_flags(h->buffersrc_ctx, frame, KEEP_REF | PUSH)
av_buffersrc_add_frame_flags(s, which, forced) ==
  LET st == IF forced \/ (which # "NULL" /\ s.scaler.eof) THEN EFAIL ELSE OK
      sc == IF st # OK THEN s.scaler
            ELSE IF which = "NULL" THEN [s.scaler EXCEPT !.eof = TRUE]
            ELSE [s.scaler EXCEPT !.buffered = @ + 1]
  IN  [s |-> [Log(s, <<"av_buffersrc_add_frame", which, st>>) EXCEPT !.scaler = sc],
       err |-> st]

\* av_buffersink_get_frame(h->buffersink_ctx, h->fr_frame): the graph
\* "format,scale" of line 295 gives one rescaled surface for each surface pushed
\* unless the environment makes the call answer the status "forced"
av_buffersink_get_frame(s, forced) ==
  LET st == IF forced # OK THEN forced
            ELSE IF s.scaler.buffered > 0 THEN OK
            ELSE IF s.scaler.eof THEN AVEOF ELSE EAGAIN
      s1 == Log(s, <<"av_buffersink_get_frame", st>>)
  IN  IF st = OK
        THEN [s |-> [Acquire(s1, "surface") EXCEPT
                       !.scaler.buffered = @ - 1,
                       !.h.fr_frame = Ptr([buf |-> TRUE, hw_frames_ctx |-> TRUE])],
              err |-> st]
        ELSE [s |-> s1, err |-> st]

\* ------------------------------------------------------------ hve_send_frame
\* a slip a maintainer could make: the surface's hw_frames_ctx is not looked at
hw_upload_ctx_unchecked(s, o) ==
  IF o = "frame_alloc" THEN [s |-> [s EXCEPT !.h.hw_frame = NULL], ret |-> HVE_ERROR]
  ELSE
  LET f0 == [buf |-> FALSE, hw_frames_ctx |-> FALSE, uploaded |-> FALSE]
      s1 == [Acquire(s, "avframe") EXCEPT !.h.hw_frame = Ptr(f0)]
  IN
  IF o = "get_buffer"
    THEN [s |-> Log(s1, <<"av_hwframe_get_buffer", EFAIL>>), ret |-> HVE_ERROR]
  ELSE
  LET s2 == [Acquire(Log(s1, <<"av_hwframe_get_buffer", OK>>), "surface") EXCEPT
               !.h.hw_frame = Ptr([f0 EXCEPT !.buf = TRUE,
                                             !.hw_frames_ctx = (o # "no_frames_ctx")])]
  IN
  IF o = "transfer"
    THEN [s |-> Log(s2, <<"av_hwframe_transfer_data", EFAIL>>), ret |-> HVE_ERROR]
  ELSE [s |-> [Log(s2, <<"av_hwframe_transfer_data", OK>>) EXCEPT
                 !.h.hw_frame = Ptr([Deref(@) EXCEPT !.uploaded = TRUE])],
        ret |-> HVE_OK]

\* hw_upload: o is "ok" or the step that fails
hw_upload(s, o) ==
  IF o = "frame_alloc" THEN [s |-> [s EXCEPT !.h.hw_frame = NULL], ret |-> HVE_ERROR]
  ELSE
  LET f0 == [buf |-> FALSE, hw_frames_ctx |-> FALSE, uploaded |-> FALSE]
      s1 == [Acquire(s, "avframe") EXCEPT !.h.hw_frame = Ptr(f0)]
  IN
  IF o = "get_buffer"
    THEN [s |-> Log(s1, <<"av_hwframe_get_buffer", EFAIL>>), ret |-> HVE_ERROR]
  ELSE
  LET s2 == [Acquire(Log(s1, <<"av_hwframe_get_buffer", OK>>), "surface") EXCEPT
               !.h.hw_frame = Ptr([f0 EXCEPT !.buf = TRUE,
                                             !.hw_frames_ctx = (o # "no_frames_ctx")])]
  IN
  IF ~Deref(s2.h.hw_frame).hw_frames_ctx THEN [s |-> s2, ret |-> HVE_ERROR]
  ELSE IF o = "transfer"
    THEN [s |-> Log(s2, <<"av_hwframe_transfer_data", EFAIL>>), ret |-> HVE_ERROR]
  ELSE [s |-> [Log(s2, <<"av_hwframe_transfer_data", OK>>) EXCEPT
                 !.h.hw_frame = Ptr([Deref(@) EXCEPT !.uploaded = TRUE])],
        ret |-> HVE_OK]

\* a slip a maintainer could make: the frame is reported sent but never is
encode_drop(s, o) == [s |-> s, ret |-> HVE_OK]

\* encode: o.send_err = 1 makes the send fail
encode(s, o) ==
  LET e == avcodec_send_frame(s, "hw_frame", o.send_err = 1)
  IN  [s |-> e.s, ret |-> IF IsNeg(e.err) THEN HVE_ERROR ELSE HVE_OK]

\* a slip a maintainer could make: "end of stream" from the sink is an error,
\* and after a surface was sent the sink is not asked again
PullLoop_once(s, o, i) ==
  LET g == av_buffersink_get_frame(s, IF o.pull_err = i + 1 THEN o.pull_st ELSE OK)
  IN  IF ~IsNeg(g.err)
        THEN LET e == avcodec_send_frame(g.s, "fr_frame", o.send_err = i + 1)
             IN  [s |-> av_frame_unref(e.s, "fr_frame"),
                  ret |-> IF IsNeg(e.err) THEN HVE_ERROR ELSE HVE_OK]
      ELSE [s |-> g.s, ret |-> IF g.err = EAGAIN THEN HVE_OK ELSE HVE_ERROR]

\* a slip a maintainer could make: a failed send returns at once and leaves
\* the rescaled surface in fr_frame
RECURSIVE PullLoop_keep_on_error(_, _, _)
PullLoop_keep_on_error(s, o, i) ==
  LET g == av_buffersink_get_frame(s, IF o.pull_err = i + 1 THEN o.pull_st ELSE OK)
  IN  IF ~IsNeg(g.err)
        THEN LET e == avcodec_send_frame(g.s, "fr_frame", o.send_err = i + 1)
             IN  IF IsNeg(e.err) THEN [s |-> e.s, ret |-> HVE_ERROR]
                 ELSE PullLoop_keep_on_error(av_frame_unref(e.s, "fr_frame"), o, i + 1)
      ELSE IF g.err = EAGAIN \/ g.err = AVEOF THEN [s |-> g.s, ret |-> HVE_OK]
      ELSE [s |-> g.s, ret |-> HVE_ERROR]

\* lines 401-416 of scale_encode: i pulls were made before this one
RECURSIVE PullLoop(_, _, _)
PullLoop(s, o, i) ==
  LET g == av_buffersink_get_frame(s, IF o.pull_err = i + 1 THEN o.pull_st ELSE OK)
  IN  IF ~IsNeg(g.err)
        THEN LET e == avcodec_send_frame(g.s, "fr_frame", o.send_err = i + 1)
                 u == av_frame_unref(e.s, "fr_frame")
             IN  IF IsNeg(e.err) THEN [s |-> u, ret |-> HVE_ERROR]
                 ELSE PullLoop(u, o, i + 1)
      ELSE IF g.err = EAGAIN \/ g.err = AVEOF THEN [s |-> g.s, ret |-> HVE_OK]
      ELSE [s |-> g.s, ret |-> HVE_ERROR]

\* a slip a maintainer could make: the surface is pushed and nothing is pulled
scale_encode_push_only(s, o) ==
  LET p == av_buffersrc_add_frame_flags(s, "hw_frame", o.push_fail)
  IN  [s |-> p.s, ret |-> IF IsNeg(p.err) THEN HVE_ERROR ELSE HVE_OK]

scale_encode(s, o) ==
  LET p == av_buffersrc_add_frame_flags(s, "hw_frame", o.push_fail)
  IN  IF IsNeg(p.err) THEN [s |-> p.s, ret |-> HVE_ERROR]
      ELSE PullLoop(p.s, o, 0)

\* a slip a maintainer could make: the surface of the last call is kept
ReleasePrevious_skip(s) == s

\* a slip a maintainer could make: the packet is unreferenced with the surface
ReleasePrevious_and_packet(s) == av_frame_free(av_packet_unref(s), "hw_frame")

\* line 349: the surface of the previous call is freed first
ReleasePrevious(s) == av_frame_free(s, "hw_frame")

\* a slip a maintainer could make: with a scaling graph only the graph is flushed
SendNull_graph_only(s, o) ==
  IF s.h.filter_graph # NULL
    THEN [s |-> av_buffersrc_add_frame_flags(s, "NULL", o.push_fail).s, ret |-> HVE_OK]
    ELSE LET e == avcodec_send_frame(s, "NULL", o.send_err = 1)
         IN  [s |-> e.s, ret |-> IF IsNeg(e.err) THEN HVE_ERROR ELSE HVE_OK]

\* a slip a maintainer could make: a graph that refuses the end-of-stream
\* mark fails the call, and the encoder is not flushed
SendNull_scaler_fatal(s, o) ==
  IF s.h.filter_graph # NULL /\ o.push_fail
    THEN [s |-> av_buffersrc_add_frame_flags(s, "NULL", o.push_fail).s, ret |-> HVE_ERROR]
    ELSE LET s1 == IF s.h.filter_graph # NULL
                     THEN av_buffersrc_add_frame_flags(s, "NULL", o.push_fail).s
                     ELSE s
             e == avcodec_send_frame(s1, "NULL", o.send_err = 1)
         IN  [s |-> e.s, ret |-> IF IsNeg(e.err) THEN HVE_ERROR ELSE HVE_OK]

\* a slip a maintainer could make: a NULL frame is accepted and nothing is done
SendNull_nothing(s, o) == [s |-> s, ret |-> HVE_OK]

\* a slip a maintainer could make: the encoder's answer to the flush is dropped
SendNull_reports_ok(s, o) ==
  LET s1 == IF s.h.filter_graph # NULL
              THEN av_buffersrc_add_frame_flags(s, "NULL", o.push_fail).s
              ELSE s
  IN  [s |-> avcodec_send_frame(s1, "NULL", o.send_err = 1).s, ret |-> HVE_OK]

\* lines 352-362: a NULL frame flushes the graph, if any, and the encoder
SendNull(s, o) ==
  LET s1 == IF s.h.filter_graph # NULL
              THEN av_buffersrc_add_frame_flags(s, "NULL", o.push_fail).s
              ELSE s
      e == avcodec_send_frame(s1, "NULL", o.send_err = 1)
  IN  [s |-> e.s, ret |-> IF IsNeg(e.err) THEN HVE_ERROR ELSE HVE_OK]

\* a slip a maintainer could make: the result of hw_upload is not looked at
hve_send_frame_upload_unchecked(s0, frame, o) ==
  LET s == ReleasePrevious([s0 EXCEPT !.ops = << >>]) IN
  IF frame = NULL THEN SendNull(s, o)
  ELSE
  LET s1 == [s EXCEPT !.h.sw_frame = Ptr([Deref(@) EXCEPT
                         !.data = Deref(frame).data, !.linesize = Deref(frame).linesize])]
      u == hw_upload(s1, o.upload)
  IN  IF u.s.h.filter_graph # NULL THEN scale_encode(u.s, o)
      ELSE encode(u.s, o)

\* a slip a maintainer could make: a NULL frame returns before the surface of
\* the previous call is freed
hve_send_frame_flush_first(s0, frame, o) ==
  IF frame = NULL THEN SendNull([s0 EXCEPT !.ops = << >>], o)
  ELSE
  LET s == ReleasePrevious([s0 EXCEPT !.ops = << >>])
      s1 == [s EXCEPT !.h.sw_frame = Ptr([Deref(@) EXCEPT
                         !.data = Deref(frame).data, !.linesize = Deref(frame).linesize])]
      u == hw_upload(s1, o.upload)
  IN  IF u.ret < 0 THEN u
      ELSE IF u.s.h.filter_graph # NULL THEN scale_encode(u.s, o)
      ELSE encode(u.s, o)

\* a slip a maintainer could make: the uploaded surface goes to the encoder
\* whether there is a scaling graph or not
hve_send_frame_always_encode(s0, frame, o) ==
  LET s == ReleasePrevious([s0 EXCEPT !.ops = << >>]) IN
  IF frame = NULL THEN SendNull(s, o)
  ELSE
  LET s1 == [s EXCEPT !.h.sw_frame = Ptr([Deref(@) EXCEPT
                         !.data = Deref(frame).data, !.linesize = Deref(frame).linesize])]
      u == hw_upload(s1, o.upload)
  IN  IF u.ret < 0 THEN u
      ELSE encode(u.s, o)

\* hve_send_frame(h, frame): frame is NULL or a pointer to the caller's hve_frame
hve_send_frame(s0, frame, o) ==
  LET s == ReleasePrevious([s0 EXCEPT !.ops = << >>]) IN
  IF frame = NULL THEN SendNull(s, o)
  ELSE
  LET s1 == [s EXCEPT !.h.sw_frame = Ptr([Deref(@) EXCEPT
                         !.data = Deref(frame).data, !.linesize = Deref(frame).linesize])]
      u == hw_upload(s1, o.upload)
  IN  IF u.ret < 0 THEN u
      ELSE IF u.s.h.filter_graph # NULL THEN scale_encode(u.s, o)
      ELSE encode(u.s, o)

\* -------------------------------------------------------- hve_receive_packet
\* a slip a maintainer could make: only EAGAIN counts as "no packet yet"
hve_receive_packet_eagain_only(s0, error, o) ==
  LET r == avcodec_receive_packet([s0 EXCEPT !.ops = << >>], o.forced, o.ready)
  IN  IF r.err = OK
        THEN [s |-> r.s, status |-> r.err, pkt |-> Ptr(r.s.h.enc_pkt), error |-> HVE_OK]
        ELSE [s |-> r.s, status |-> r.err, pkt |-> NULL,
              error |-> IF r.err = EAGAIN THEN HVE_OK ELSE HVE_ERROR]

\* a slip a maintainer could make: the packet is never handed to the caller
hve_receive_packet_drop(s0, error, o) ==
  LET r == avcodec_receive_packet([s0 EXCEPT !.ops = << >>], o.forced, o.ready)
  IN  [s |-> r.s, status |-> r.err, pkt |-> NULL,
       error |-> IF r.err = OK \/ r.err = EAGAIN \/ r.err = AVEOF THEN HVE_OK ELSE HVE_ERROR]

\* a change a maintainer could make: the end of the stream is told apart by
\* a value of its own
hve_receive_packet_eof_told(s0, error, o) ==
  LET r == avcodec_receive_packet([s0 EXCEPT !.ops = << >>], o.forced, o.ready)
  IN  IF r.err = OK
        THEN [s |-> r.s, status |-> r.err, pkt |-> Ptr(r.s.h.enc_pkt), error |-> HVE_OK]
        ELSE [s |-> r.s, status |-> r.err, pkt |-> NULL,
              error |-> IF r.err = EAGAIN THEN HVE_OK
                        ELSE IF r.err = AVEOF THEN 1 ELSE HVE_ERROR]

\* a slip a maintainer could make: the surface in flight is freed once the
\* encoder was asked for a packet
hve_receive_packet_frees_surface(s0, error, o) ==
  LET r == avcodec_receive_packet([s0 EXCEPT !.ops = << >>], o.forced, o.ready)
      s == av_frame_free(r.s, "hw_frame")
  IN  IF r.err = OK
        THEN [s |-> s, status |-> r.err, pkt |-> Ptr(s.h.enc_pkt), error |-> HVE_OK]
        ELSE [s |-> s, status |-> r.err, pkt |-> NULL,
              error |-> IF r.err = EAGAIN \/ r.err = AVEOF THEN HVE_OK ELSE HVE_ERROR]

\* hve_receive_packet(h, &error): error is what the caller's variable held
hve_receive_packet(s0, error, o) ==
  LET r == avcodec_receive_packet([s0 EXCEPT !.ops = << >>], o.forced, o.ready)
  IN  IF r.err = OK
        THEN [s |-> r.s, status |-> r.err, pkt |-> Ptr(r.s.h.enc_pkt), error |-> HVE_OK]
        ELSE [s |-> r.s, status |-> r.err, pkt |-> NULL,
              error |-> IF r.err = EAGAIN \/ r.err = AVEOF THEN HVE_OK ELSE HVE_ERROR]

\* ------------------------------------------------------------------ state
VARIABLES
  handle,     \* the caller's struct hve pointer: "none", "failed" (NULL), "open",
              \* "closed", "closed_again"
  config,     \* the configuration the caller last passed to hve_init
  fault,      \* the step of that hve_init which the environment made fail
  h,          \* struct hve
  enc,        \* the encoder session's queue (backend)
  scaler,     \* the scaling graph's queue (backend)
  live,       \* live resources, by kind
  ops,        \* the resource and backend calls of the last library call
  ret,        \* the last library call and what it returned
  hist,       \* what the caller has done so far (history)
  loop,       \* the locals of the example's main and encoding_loop
  twin        \* a second pipeline, run beside the first

vars == <<handle, config, fault, h, enc, scaler, live, ops, ret, hist, loop, twin>>

World == [h |-> h, enc |-> enc, scaler |-> scaler, live |-> live, ops |-> ops]

SetWorld(s) ==
  /\ h' = s.h
  /\ enc' = s.enc
  /\ scaler' = s.scaler
  /\ live' = s.live
  /\ ops' = s.ops

NoConfig == [c \in {} |-> 0]
NoRet == [op |-> "none"]

Hist0 ==
  [sends |-> 0, flushes |-> 0, errors |-> FALSE, dry |-> TRUE,
   canon |-> TRUE, flushed |-> FALSE, drains |-> 0, eos |-> FALSE]
Loop0 == [pc |-> "init", f |-> 0, frames |-> 0, written |-> 0, failed |-> 7]
Twin0 == [on |-> FALSE, s |-> World0, ret |-> NoRet]

Init ==
  /\ handle = "none"
  /\ config = NoConfig
  /\ fault = "none"
  /\ h = World0.h
  /\ enc = World0.enc
  /\ scaler = World0.scaler
  /\ live = World0.live
  /\ ops = World0.ops
  /\ ret = NoRet
  /\ hist = Hist0
  /\ loop = Loop0
  /\ twin = Twin0

\* ------------------------------------------------------- the caller's inputs
\* configurations of the pipelines that are run: everything but the
\* dimensions and max_b_frames is left at its default
DefaultConfigs ==
  {c \in Configs : /\ c.pixel_format.name = "null"
                   /\ c.bit_rate = 0 /\ c.qp = 0 /\ c.low_power = 0}
\* input dimensions unset, or both different from the output's
RunConfigs ==
  {c \in DefaultConfigs :
     \/ (c.input_width = 0 /\ c.input_height = 0)
     \/ (c.input_width = c.width + 2 /\ c.input_height = c.height + 2)}
\* input dimensions equal to the output's
EqualConfigs ==
  {c \in DefaultConfigs : c.input_width = c.width /\ c.input_height = c.height}
Unset(c) == [c EXCEPT !.input_width = 0, !.input_height = 0]

\* the caller's frames: the plane pointers name one of the caller's buffers
Frames == {Ptr([data |-> "Y", linesize |-> Width])}

UploadOutcomes == {"ok", "frame_alloc", "get_buffer", "no_frames_ctx", "transfer"}
NoFault ==
  [upload |-> "ok", push_fail |-> FALSE, pull_err |-> 0, pull_st |-> EFAIL, send_err |-> 0]
\* at most one backend call of a library call is made to fail; the graph's
\* calls can fail only where there is a graph
GraphOutcomes(s) ==
  IF s.h.filter_graph = NULL THEN {}
  ELSE {[NoFault EXCEPT !.push_fail = TRUE]}
         \cup {[NoFault EXCEPT !.pull_err = i] : i \in 1..2}
         \cup {[NoFault EXCEPT !.send_err = 2]}
SendOutcomes(s) ==
  {[NoFault EXCEPT !.upload = u] : u \in UploadOutcomes}
    \cup {[NoFault EXCEPT !.send_err = 1]} \cup GraphOutcomes(s)
FlushOutcomes(s) ==
  {NoFault, [NoFault EXCEPT !.send_err = 1]}
    \cup (IF s.h.filter_graph = NULL THEN {} ELSE {[NoFault EXCEPT !.push_fail = TRUE]})
RecvOutcomes ==
  {[forced |-> TRUE, ready |-> FALSE], [forced |-> FALSE, ready |-> FALSE],
   [forced |-> FALSE, ready |-> TRUE]}
\* what the caller's error variable may hold before the call
ErrorValues == {7}

\* a backend call of the log failed hard
HardError(log) == \E i \in 1..Len(log) : log[i][Len(log[i])] = EFAIL
Calls(log, name) == {i \in 1..Len(log) : log[i][1] = name}

Min(a, b) == IF a < b THEN a ELSE b

\* ------------------------------------------------------------ library calls
CallInit(c, f) ==
  LET r == hve_init(World, c, f)
  IN  /\ SetWorld(r.s)
      /\ config' = c
      /\ fault' = f
      /\ handle' = IF r.h = NULL THEN "failed" ELSE "open"
      /\ ret' = [op |-> "hve_init", h |-> r.h]
      /\ hist' = Hist0

CallSend(frame, o) ==
  LET r == hve_send_frame(World, frame, o)
  IN  /\ SetWorld(r.s)
      /\ ret' = [op |-> "hve_send_frame", frame |-> frame, val |-> r.ret]
      /\ hist' = [hist EXCEPT
           !.sends = IF frame # NULL THEN @ + 1 ELSE @,
           !.flushes = IF frame = NULL THEN @ + 1 ELSE @,
           !.errors = @ \/ r.ret = HVE_ERROR \/ HardError(r.s.ops),
           !.canon = @ /\ hist.dry,
           !.dry = IF frame # NULL THEN FALSE ELSE @,
           !.flushed = @ \/ (frame = NULL /\ r.ret = HVE_OK)]

CallReceive(error, o) ==
  LET r == hve_receive_packet(World, error, o)
      n == Min(hist.drains + 1, enc.max_b_frames + 3)
  IN  /\ SetWorld(r.s)
      /\ ret' = [op |-> "hve_receive_packet", status |-> r.status, pkt |-> r.pkt,
                 error |-> r.error]
      /\ hist' = [hist EXCEPT
           !.errors = @ \/ r.error = HVE_ERROR \/ HardError(r.s.ops),
           !.dry = @ \/ (r.pkt = NULL /\ r.error = HVE_OK),
           !.drains = IF hist.flushed THEN n ELSE @,
           !.eos = @ \/ (hist.flushed /\ r.status = AVEOF)]

CallClose ==
  /\ SetWorld(hve_close([World EXCEPT !.ops = << >>], Ptr("h")))
  /\ handle' = "closed"
  /\ ret' = [op |-> "hve_close", h |-> Ptr("h")]

\* ------------------------------------------- any caller, any order of calls
Open ==
  /\ handle = "none"
  /\ \E c \in RunConfigs : CallInit(c, "none")
  /\ UNCHANGED <<loop, twin>>

SendFrame ==
  /\ handle = "open"
  /\ hist.sends < MaxFrames
  /\ \E frame \in Frames, o \in SendOutcomes(World) : CallSend(frame, o)
  /\ UNCHANGED <<handle, config, fault, loop, twin>>

Flush ==
  /\ handle = "open"
  /\ hist.flushes < MaxFlush
  /\ \E o \in FlushOutcomes(World) : CallSend(NULL, o)
  /\ UNCHANGED <<handle, config, fault, loop, twin>>

ReceivePacket ==
  /\ handle = "open"
  /\ \E error \in ErrorValues, o \in RecvOutcomes : CallReceive(error, o)
  /\ UNCHANGED <<handle, config, fault, loop, twin>>

Close ==
  /\ handle = "open"
  /\ CallClose
  /\ UNCHANGED <<config, fault, hist, loop, twin>>

Next == Open \/ SendFrame \/ Flush \/ ReceivePacket \/ Close
Spec == Init /\ [][Next]_vars

\* ------------------------------------- hve_init under every configuration
InitAny ==
  /\ handle = "none"
  /\ \E c \in Configs, f \in InitFails : CallInit(c, f)
  /\ UNCHANGED <<loop, twin>>

CloseAny ==
  /\ handle = "open"
  /\ CallClose
  /\ UNCHANGED <<config, fault, hist, loop, twin>>

\* hve_close(NULL): what a caller does whose hve_init returned NULL
CloseNull ==
  /\ handle = "failed"
  /\ SetWorld(hve_close([World EXCEPT !.ops = << >>], NULL))
  /\ ret' = [op |-> "hve_close", h |-> NULL]
  /\ UNCHANGED <<handle, config, fault, hist, loop, twin>>

\* line 177 freed the struct and the caller's pointer still points at it.
\* What a later read of the struct finds is not defined: what hve_close left
\* there (every pointer NULL), or what a later owner of the memory wrote
FreedStructs(hv) == {hv, [hv EXCEPT !.hw_device_ctx = Ptr("device")]}

\* hve_close(h) once more, on the handle that was closed
CloseAgain ==
  /\ handle = "closed"
  /\ \E stale \in FreedStructs(h) :
       SetWorld(hve_close([World EXCEPT !.ops = << >>, !.h = stale], Ptr("h")))
  /\ handle' = "closed_again"
  /\ ret' = [op |-> "hve_close", h |-> Ptr("h")]
  /\ UNCHANGED <<config, fault, hist, loop, twin>>

NextOpen == InitAny \/ CloseAny \/ CloseNull \/ CloseAgain
SpecOpen == Init /\ [][NextOpen]_vars

\* ------------------------------ the example: main and encoding_loop
\* main: hve_init, then encoding_loop(frames = SECONDS * FRAMERATE)
LoopInit ==
  /\ loop.pc = "init"
  /\ \E c \in RunConfigs, n \in 0..MaxFrames :
       /\ CallInit(c, "none")
       /\ loop' = [Loop0 EXCEPT !.pc = "send", !.frames = n]
  /\ UNCHANGED twin

\* for(f = 0; f < frames; ++f): hve_send_frame(&frame), break on error
LoopSend ==
  /\ loop.pc = "send"
  /\ IF loop.f < loop.frames
       THEN \E frame \in Frames, o \in SendOutcomes(World) :
              LET r == hve_send_frame(World, frame, o)
              IN  /\ CallSend(frame, o)
                  /\ loop' = [loop EXCEPT
                                !.pc = IF r.ret # HVE_OK THEN "flush" ELSE "receive"]
       ELSE /\ loop' = [loop EXCEPT !.pc = "flush"]
            /\ UNCHANGED <<h, enc, scaler, live, ops, ret, hist>>
  /\ UNCHANGED <<handle, config, fault, twin>>

\* while((packet = hve_receive_packet(&failed))) fwrite; if(failed) break
LoopReceive ==
  /\ loop.pc = "receive"
  /\ \E o \in RecvOutcomes :
       LET r == hve_receive_packet(World, loop.failed, o)
       IN  /\ CallReceive(loop.failed, o)
           /\ loop' = IF r.pkt # NULL
                        THEN [loop EXCEPT !.written = @ + 1, !.failed = r.error]
                      ELSE IF r.error # 0
                        THEN [loop EXCEPT !.pc = "flush", !.failed = r.error]
                      ELSE [loop EXCEPT !.pc = "send", !.f = @ + 1, !.failed = r.error]
  /\ UNCHANGED <<handle, config, fault, twin>>

\* hve_send_frame(NULL): the result is not looked at
LoopFlush ==
  /\ loop.pc = "flush"
  /\ \E o \in FlushOutcomes(World) : CallSend(NULL, o)
  /\ loop' = [loop EXCEPT !.pc = "flush_receive"]
  /\ UNCHANGED <<handle, config, fault, twin>>

\* while((packet = hve_receive_packet(&failed))) fwrite
LoopFlushReceive ==
  /\ loop.pc = "flush_receive"
  /\ \E o \in RecvOutcomes :
       LET r == hve_receive_packet(World, loop.failed, o)
       IN  /\ CallReceive(loop.failed, o)
           /\ loop' = IF r.pkt # NULL
                        THEN [loop EXCEPT !.written = @ + 1, !.failed = r.error]
                        ELSE [loop EXCEPT !.pc = "close", !.failed = r.error]
  /\ UNCHANGED <<handle, config, fault, twin>>

\* back in main: hve_close
LoopClose ==
  /\ loop.pc = "close"
  /\ CallClose
  /\ loop' = [loop EXCEPT !.pc = "done"]
  /\ UNCHANGED <<config, fault, hist, twin>>

NextLoop ==
  LoopInit \/ LoopSend \/ LoopReceive \/ LoopFlush \/ LoopFlushReceive \/ LoopClose
SpecLoop == Init /\ [][NextLoop]_vars

\* ---------------- two pipelines in step: input dimensions equal, and unset
TwinWorld == twin.s

TwinOpen ==
  /\ handle = "none"
  /\ \E c \in EqualConfigs, f \in {"none", "avcodec_open2", "sw_frame_alloc"} :
       LET r == hve_init(World0, Unset(c), f)
       IN  /\ CallInit(c, f)
           /\ twin' = [on |-> TRUE, s |-> r.s, ret |-> [op |-> "hve_init", h |-> r.h]]
  /\ UNCHANGED loop

TwinSend ==
  /\ handle = "open"
  /\ hist.sends < MaxFrames
  /\ \E frame \in Frames, o \in SendOutcomes(World) :
       LET r == hve_send_frame(TwinWorld, frame, o)
       IN  /\ CallSend(frame, o)
           /\ twin' = [twin EXCEPT !.s = r.s,
                 !.ret = [op |-> "hve_send_frame", frame |-> frame, val |-> r.ret]]
  /\ UNCHANGED <<handle, config, fault, loop>>

TwinFlush ==
  /\ handle = "open"
  /\ hist.flushes < MaxFlush
  /\ \E o \in FlushOutcomes(World) :
       LET r == hve_send_frame(TwinWorld, NULL, o)
       IN  /\ CallSend(NULL, o)
           /\ twin' = [twin EXCEPT !.s = r.s,
                 !.ret = [op |-> "hve_send_frame", frame |-> NULL, val |-> r.ret]]
  /\ UNCHANGED <<handle, config, fault, loop>>

TwinReceive ==
  /\ handle = "open"
  /\ \E error \in ErrorValues, o \in RecvOutcomes :
       LET r == hve_receive_packet(TwinWorld, error, o)
       IN  /\ CallReceive(error, o)
           /\ twin' = [twin EXCEPT !.s = r.s,
                 !.ret = [op |-> "hve_receive_packet", status |-> r.status,
                          pkt |-> r.pkt, error |-> r.error]]
  /\ UNCHANGED <<handle, config, fault, loop>>

NextTwin == TwinOpen \/ TwinSend \/ TwinFlush \/ TwinReceive
SpecTwin == Init /\ [][NextTwin]_vars

\* ------------- two pipelines of one configuration, each with its own upload
PairOpen ==
  /\ handle = "none"
  /\ \E c \in RunConfigs :
       LET r == hve_init(World0, c, "none")
       IN  /\ CallInit(c, "none")
           /\ twin' = [on |-> TRUE, s |-> r.s, ret |-> [op |-> "hve_init", h |-> r.h]]
  /\ UNCHANGED loop

PairSend ==
  /\ handle = "open"
  /\ hist.sends < MaxFrames
  /\ \E frame \in Frames, u1 \in UploadOutcomes, u2 \in UploadOutcomes :
       LET r == hve_send_frame(TwinWorld, frame, [NoFault EXCEPT !.upload = u2])
       IN  /\ CallSend(frame, [NoFault EXCEPT !.upload = u1])
           /\ twin' = [twin EXCEPT !.s = r.s,
                 !.ret = [op |-> "hve_send_frame", frame |-> frame, val |-> r.ret]]
  /\ UNCHANGED <<handle, config, fault, loop>>

NextPair == PairOpen \/ PairSend
SpecPair == Init /\ [][NextPair]_vars

\* -------- a pipeline with a scaling graph whose sink may answer any status
ScaleConfigs == {c \in RunConfigs : c.input_width # 0}
SinkOutcomes ==
  {[NoFault EXCEPT !.pull_err = i, !.pull_st = st] :
     i \in 1..2, st \in {EFAIL, EAGAIN, AVEOF}}

ScaleOpen ==
  /\ handle = "none"
  /\ \E c \in ScaleConfigs : CallInit(c, "none")
  /\ UNCHANGED <<loop, twin>>

ScaleSend ==
  /\ handle = "open"
  /\ hist.sends < MaxFrames
  /\ \E frame \in Frames, o \in SendOutcomes(World) \cup SinkOutcomes : CallSend(frame, o)
  /\ UNCHANGED <<handle, config, fault, loop, twin>>

NextScale == ScaleOpen \/ ScaleSend \/ ReceivePacket
SpecScale == Init /\ [][NextScale]_vars

\* ------------------------- a caller that sends NULL more than once
FlushOpen ==
  /\ handle = "none"
  /\ \E c \in RunConfigs : CallInit(c, "none")
  /\ UNCHANGED <<loop, twin>>

FlushSubmit ==
  /\ handle = "open"
  /\ hist.sends < MaxFrames
  /\ \E frame \in Frames : CallSend(frame, NoFault)
  /\ UNCHANGED <<handle, config, fault, loop, twin>>

FlushNull ==
  /\ handle = "open"
  /\ hist.flushes < MaxNulls
  /\ \E o \in FlushOutcomes(World) : CallSend(NULL, o)
  /\ UNCHANGED <<handle, config, fault, loop, twin>>

NextFlush == FlushOpen \/ FlushSubmit \/ FlushNull \/ ReceivePacket
SpecFlush == Init /\ [][NextFlush]_vars

\* ================================================================ properties
\* C1: hve_receive_packet has three outcomes, decided by the status of
\* avcodec_receive_packet alone: status 0 returns the packet with error
\* HVE_OK; EAGAIN or EOF return NULL with HVE_OK; any other status returns
\* NULL with HVE_ERROR.  The error output is written on every call (it held
\* neither HVE_OK nor HVE_ERROR before), and a packet never comes with
\* HVE_ERROR.
C1_ReceiveTriState ==
  ret.op = "hve_receive_packet" =>
    /\ ret.error \in {HVE_OK, HVE_ERROR}
    /\ ret.status = OK => (ret.pkt = Ptr(h.enc_pkt) /\ ret.error = HVE_OK)
    /\ ret.status \in {EAGAIN, AVEOF} => (ret.pkt = NULL /\ ret.error = HVE_OK)
    /\ ret.status \notin {OK, EAGAIN, AVEOF} => (ret.pkt = NULL /\ ret.error = HVE_ERROR)
    /\ ret.pkt # NULL => ret.error # HVE_ERROR

\* the end of the stream was just reported: no packet and no error
C1_Witness ==
  /\ ret.op = "hve_receive_packet"
  /\ ret.status = AVEOF
  /\ ret.pkt = NULL
  /\ ret.error = HVE_OK
  /\ hist.flushed

\* C2 (as stated): once a NULL frame was submitted, and with no error, the
\* end of the stream is reported within max_b_frames + 2 calls of
\* hve_receive_packet, whatever the caller did before
C2_FlushTerminationAnyCaller ==
  (hist.flushed /\ ~hist.errors /\ hist.drains >= config.max_b_frames + 2) => hist.eos

\* C2 (amended): the same, for a caller that before each submit had drained
\* until hve_receive_packet returned nothing
C2_FlushTermination ==
  (hist.flushed /\ hist.canon /\ ~hist.errors
     /\ hist.drains >= config.max_b_frames + 2) => hist.eos

\* the bound is met: max_b_frames + 1 packets were held back and come out
\* after the flush, and the call after them reports the end of the stream
C2_Witness ==
  /\ handle = "open"
  /\ hist.flushed /\ hist.canon /\ ~hist.errors
  /\ hist.sends = config.max_b_frames + 1
  /\ enc.out = hist.sends
  /\ hist.drains = config.max_b_frames + 2
  /\ hist.eos
  /\ ret.op = "hve_receive_packet" /\ ret.status = AVEOF

\* C4: whatever calls were made, the pipeline holds at most one hardware
\* surface, and the one it holds is that of h->hw_frame
C4_OneSurfaceInFlight ==
  /\ live.surface <= 1
  /\ live.surface = 1 => (h.hw_frame # NULL /\ Deref(h.hw_frame).buf)
  /\ h.fr_frame # NULL => ~Deref(h.fr_frame).buf

\* a second frame was submitted and one surface is held
C4_Witness ==
  /\ ret.op = "hve_send_frame"
  /\ ret.frame # NULL
  /\ hist.sends >= 2
  /\ live.surface = 1

\* C3: in the example's encoding_loop (each frame is sent and the packets
\* are drained until there is none, then NULL is sent and the packets are
\* drained again), with no backend error, the packets written, those drained
\* after the flush included, are as many as the frames sent: all of them
C3_PacketConservation ==
  (loop.pc \in {"close", "done"} /\ ~hist.errors) =>
    /\ loop.f = loop.frames
    /\ hist.sends = loop.frames
    /\ loop.written = loop.frames

\* a loop over MaxFrames frames ended without error, with packets held back
\* until the flush
C3_Witness ==
  /\ loop.pc = "done"
  /\ ~hist.errors
  /\ loop.frames = MaxFrames
  /\ loop.written = MaxFrames
  /\ hist.drains >= 2

\* the input dimensions are those of the output
DimsEqual(c) == c.input_width = c.width /\ c.input_height = c.height

\* nothing of the scaling stage exists in world s
NoScalingStage(s) ==
  /\ s.h.filter_graph = NULL
  /\ s.h.fr_frame = NULL
  /\ s.h.buffersrc_ctx = NULL /\ s.h.buffersink_ctx = NULL
  /\ s.live.graph = 0

\* the calls of log send the uploaded surface to the encoder, once, and
\* nothing goes through a filter graph
DirectSend(log) ==
  /\ Cardinality(Calls(log, "avcodec_send_frame")) = 1
  /\ \A i \in Calls(log, "avcodec_send_frame") : log[i][2] = "hw_frame"
  /\ Calls(log, "av_buffersrc_add_frame") = {}
  /\ Calls(log, "av_buffersink_get_frame") = {}

SentFrame(r) == r.op = "hve_send_frame" /\ r.frame # NULL /\ r.val = HVE_OK

\* C5: a pipeline opened with input dimensions equal to the output's, and
\* one opened with them unset, has no filter graph and no filter staging
\* frame, and each successful hve_send_frame of a real frame sends the
\* uploaded surface straight to the encoder, exactly once
C5_NoScalingWhenDimensionsMatch ==
  (handle = "open" /\ twin.on) =>
    /\ DimsEqual(config) =>
         (NoScalingStage(World) /\ (SentFrame(ret) => DirectSend(ops)))
    /\ NoScalingStage(twin.s) /\ (SentFrame(twin.ret) => DirectSend(twin.s.ops))

\* a second frame was sent with success through both pipelines
C5_Witness ==
  /\ handle = "open" /\ twin.on
  /\ DimsEqual(config)
  /\ SentFrame(ret) /\ SentFrame(twin.ret)
  /\ hist.sends >= 2
  /\ enc.queued >= 1

\* C6: a pipeline opened with input dimensions equal to the output's and one
\* opened with them unset are the same after hve_init (same pool, same
\* staging frame, no scaling stage) and stay the same under every sequence of
\* calls against the same backend: same backend operations, same results
C6_EqualDimensionsAsUnset ==
  twin.on =>
    /\ DimsEqual(config)
    /\ twin.s = World
    /\ twin.ret = ret
    /\ handle = "open" =>
         /\ Deref(Deref(h.avctx).hw_frames_ctx).width = config.width
         /\ Deref(Deref(h.avctx).hw_frames_ctx).height = config.height
         /\ Deref(h.sw_frame).width = config.width
         /\ Deref(h.sw_frame).height = config.height

\* both pipelines gave a packet after two frames
C6_Witness ==
  /\ twin.on /\ handle = "open"
  /\ hist.sends >= 2
  /\ ret.op = "hve_receive_packet" /\ ret.pkt # NULL
  /\ twin.ret.op = "hve_receive_packet" /\ twin.ret.pkt # NULL

\* the requested software format has 10 bits per channel
TenBit(f) ==
  /\ f.name = "known"
  /\ f.desc # << >>
  /\ \E i \in 1..Len(f.desc) : f.desc[i] = 10
  /\ \A i \in 1..Len(f.desc) : f.desc[i] <= 10

PoolFormat == Deref(Deref(h.avctx).hw_frames_ctx).sw_format

\* C7: the surface pool of an open pipeline works in P010LE when the maximum
\* component depth of the requested software format is 10, and in NV12 for
\* any other depth and when no format is given
C7_FormatFallback ==
  handle = "open" =>
    PoolFormat = IF TenBit(config.pixel_format) THEN AV_PIX_FMT_P010LE
                 ELSE AV_PIX_FMT_NV12

\* a format whose first component has 8 bits and whose second has 10
C7_Witness ==
  /\ handle = "open"
  /\ config.pixel_format.desc = <<8, 10>>
  /\ PoolFormat = AV_PIX_FMT_P010LE

\* C8 (as stated): with bit_rate and qp both non-zero the option qp is not
\* passed to the encoder session
C8_QpNotPassedWithBitRate ==
  (handle = "open" /\ config.bit_rate # 0 /\ config.qp # 0) =>
    "qp" \notin Deref(h.avctx).opts

\* the session was opened with a bit rate and with the option qp
C8_Witness ==
  /\ handle = "open"
  /\ Deref(h.avctx).bit_rate # 0
  /\ "qp" \in Deref(h.avctx).opts

\* scaling is asked for by configuration c
ScalingWanted(c) ==
  \/ (c.input_width # 0 /\ c.input_width # c.width)
  \/ (c.input_height # 0 /\ c.input_height # c.height)

\* the steps that only some configurations go through
StepRuns(c, f) ==
  CASE f = "dict_qp" -> c.qp # 0
    [] f = "dict_low_power" -> c.low_power # 0
    [] f \in {"get_buffer", "get_buffersink", "inout_alloc_ins", "inout_alloc_outs",
              "graph_alloc", "create_src", "par_alloc", "par_set", "create_sink",
              "parse_ptr", "filter_dev_ref", "graph_config", "fr_frame_alloc"}
         -> ScalingWanted(c)
    [] OTHER -> TRUE

\* every part of the pipeline is there
Constructed ==
  /\ live.hve = 1
  /\ h.hw_device_ctx # NULL
  /\ h.avctx # NULL
  /\ Deref(h.avctx).opened
  /\ Deref(h.avctx).hw_frames_ctx # NULL
  /\ h.sw_pix_fmt # AV_PIX_FMT_NONE
  /\ h.sw_frame # NULL
  /\ ScalingWanted(config) =>
       /\ h.filter_graph # NULL
       /\ Deref(h.filter_graph).configured
       /\ Deref(h.filter_graph).nb_filters = 4
       /\ h.buffersrc_ctx # NULL /\ h.buffersink_ctx # NULL
       /\ h.fr_frame # NULL

\* C9: hve_init returns a handle only if every construction step it went
\* through succeeded, and the handle is then fully constructed; if a step
\* failed it returns NULL and the struct is gone
C9_OpenAllOrNothing ==
  /\ handle = "open" =>
       /\ ret.op = "hve_init" => ret.h # NULL
       /\ Constructed
       /\ fault = "none" \/ ~StepRuns(config, fault)
       /\ config.pixel_format.name # "unknown"
  /\ handle = "failed" => (ret.h = NULL /\ live.hve = 0)

\* a pipeline with a scaling stage was opened
C9_Witness ==
  /\ handle = "open"
  /\ ScalingWanted(config)
  /\ Deref(h.filter_graph).configured
  /\ h.fr_frame # NULL

\* C10 (as stated): when hve_init fails, at whatever step, nothing it
\* acquired is still live when it returns
C10_NoLeakOnFailure ==
  handle = "failed" => TotalLive(live) = 0

\* hve_init failed at the depth lookup of a format that has no component,
\* and the reference to the pool is still live
C10_Witness ==
  /\ handle = "failed"
  /\ fault = "none"
  /\ config.pixel_format.name = "known" /\ config.pixel_format.desc = << >>
  /\ live.frames = 1

\* C11: hve_init with a pixel format name FFmpeg does not know returns NULL,
\* and the struct, the device context and the encoder context it had
\* acquired are released: no resource is live when it returns
C11_UnknownFormatFailsClean ==
  (handle # "none" /\ config.pixel_format.name = "unknown") =>
    /\ handle = "failed"
    /\ ret.op = "hve_init" => ret.h = NULL
    /\ TotalLive(live) = 0

\* the name was looked up after the device and the encoder context were
\* acquired, and both were released
C11_Witness ==
  /\ handle = "failed"
  /\ config.pixel_format.name = "unknown"
  /\ fault = "none"
  /\ ret.op = "hve_init"
  /\ \E i, j \in 1..Len(ops) :
       /\ i < j
       /\ ops[i] = <<"acquire", "codec">>
       /\ ops[j] = <<"release", "device">>
  /\ TotalLive(live) = 0

\* C12 (as stated): hve_close(NULL) does nothing, and hve_close on a handle
\* that was closed already releases nothing again
C12_CloseIdempotent ==
  /\ (ret.op = "hve_close" /\ ret.h = NULL) => ops = << >>
  /\ handle = "closed_again" => (ops = << >> /\ live = NoLive)

\* the second hve_close freed the struct a second time
C12_Witness ==
  /\ handle = "closed_again"
  /\ ops[Len(ops)] = <<"release", "hve">>
  /\ live.hve < 0

\* C13: hve_close on an open pipeline, whatever was done with it before
\* (frames sent or not, flushed or not, a packet outstanding or not, a surface
\* in flight or not, calls that failed), releases everything the pipeline
\* owns: nothing is live afterwards and the struct holds no pointer
C13_CloseSafeInEveryState ==
  handle = "closed" =>
    /\ live = NoLive
    /\ h.enc_pkt.data = 0
    /\ h.sw_frame = NULL /\ h.fr_frame = NULL /\ h.hw_frame = NULL
    /\ h.filter_graph = NULL /\ h.avctx = NULL /\ h.hw_device_ctx = NULL

\* closed after an error, with a packet outstanding and a surface in flight
C13_Witness ==
  /\ handle = "closed"
  /\ hist.errors
  /\ hist.sends >= 2
  /\ \E i \in 1..Len(ops) : ops[i] = <<"release", "packet">>
  /\ \E i \in 1..Len(ops) : ops[i] = <<"release", "surface">>

\* every entry a of log comes before every entry b
Before(log, a, b) ==
  \A i, j \in 1..Len(log) : (log[i] = a /\ log[j] = b) => i < j

FreeOf(field) == <<"av_frame_free", field>>
ReleaseOf(kind) == <<"release", kind>>

\* the device context goes last, before the struct only
DeviceLast(log) ==
  /\ Len(log) >= 2
  /\ log[Len(log)] = ReleaseOf("hve")
  /\ log[Len(log) - 1] = ReleaseOf("device")
  /\ Before(log, ReleaseOf("codec"), ReleaseOf("hve"))
  /\ \A i \in 1..Len(log) : log[i] = ReleaseOf("codec") => i < Len(log) - 1

\* C14 (as stated): hve_close releases the hardware surfaces (in flight and
\* of the filter) first, then the scaling graph, then the software staging
\* frame, then the encoder session, and the device context last
C14_CloseOrderAsStated ==
  handle = "closed" =>
    /\ Before(ops, FreeOf("hw_frame"), ReleaseOf("graph"))
    /\ Before(ops, FreeOf("fr_frame"), ReleaseOf("graph"))
    /\ Before(ops, FreeOf("hw_frame"), FreeOf("sw_frame"))
    /\ Before(ops, FreeOf("fr_frame"), FreeOf("sw_frame"))
    /\ Before(ops, ReleaseOf("graph"), FreeOf("sw_frame"))
    /\ Before(ops, FreeOf("sw_frame"), ReleaseOf("codec"))
    /\ DeviceLast(ops)

\* C14 (amended): hve_close releases the outstanding packet, then the
\* software staging frame, then the filter's staging frame, then the
\* in-flight surface, then the scaling graph with its nodes, then the encoder
\* session, and the device context last
C14_CloseOrder ==
  handle = "closed" =>
    /\ Before(ops, ReleaseOf("packet"), FreeOf("sw_frame"))
    /\ Before(ops, FreeOf("sw_frame"), FreeOf("fr_frame"))
    /\ Before(ops, FreeOf("sw_frame"), FreeOf("hw_frame"))
    /\ Before(ops, FreeOf("fr_frame"), FreeOf("hw_frame"))
    /\ Before(ops, ReleaseOf("surface"), ReleaseOf("graph"))
    /\ Before(ops, FreeOf("hw_frame"), ReleaseOf("graph"))
    /\ Before(ops, FreeOf("hw_frame"), ReleaseOf("codec"))
    /\ Before(ops, ReleaseOf("graph"), ReleaseOf("codec"))
    /\ DeviceLast(ops)

\* a pipeline with a scaling graph, a surface in flight and a packet
\* outstanding was closed
C14_Witness ==
  /\ handle = "closed"
  /\ \A e \in {ReleaseOf("packet"), FreeOf("sw_frame"), FreeOf("fr_frame"),
               FreeOf("hw_frame"), ReleaseOf("surface"), ReleaseOf("graph"),
               ReleaseOf("codec"), ReleaseOf("device")} :
       \E i \in 1..Len(ops) : ops[i] = e

\* C15: the packet hve_receive_packet returned stays as it is until the next
\* hve_receive_packet or hve_close: hve_send_frame, with a frame or NULL,
\* successful or not, leaves it alone; the next hve_receive_packet
\* unreferences it first, whatever it then returns; hve_close unreferences it
C15_PacketLifetime ==
  [][ /\ ret'.op = "hve_send_frame" =>
           (h'.enc_pkt = h.enc_pkt /\ live'.packet = live.packet)
      /\ (ret'.op = "hve_receive_packet" /\ h.enc_pkt.data # 0) =>
           (ops'[1] = <<"release", "packet">> /\ h'.enc_pkt.data # h.enc_pkt.data)
      /\ (ret'.op = "hve_close" /\ h.enc_pkt.data # 0) =>
           (ops'[1] = <<"release", "packet">> /\ h'.enc_pkt.data = 0)
    ]_vars

\* a packet is still held after an hve_send_frame that failed
C15_Witness ==
  /\ ret.op = "hve_send_frame"
  /\ ret.val = HVE_ERROR
  /\ h.enc_pkt.data # 0
  /\ live.packet = 1

\* C16 (as stated): once hve_send_frame has returned, nothing in the
\* pipeline, the software staging frame included, holds the plane pointers of
\* the caller's frame
C16_NoRetainedPlanes ==
  (handle = "open" /\ ret.op = "hve_send_frame") =>
    /\ Deref(h.sw_frame).data = "null"
    /\ Deref(h.sw_frame).linesize = 0

\* hve_send_frame returned and the staging frame points at the caller's plane
C16_Witness ==
  /\ handle = "open"
  /\ ret.op = "hve_send_frame"
  /\ ret.frame # NULL
  /\ ret.val = HVE_OK
  /\ Deref(h.sw_frame).data = Deref(ret.frame).data

\* the last call was hve_send_frame(h, NULL)
FlushCall == ret.op = "hve_send_frame" /\ ret.frame = NULL

\* C17: hve_send_frame(h, NULL) marks the end of the stream on the scaling
\* graph, if there is one, then flushes the encoder, once; it returns
\* HVE_ERROR exactly when the flush of the encoder fails: a graph that
\* refuses the mark does not fail the call and the encoder is flushed anyway
C17_FlushForwarding ==
  FlushCall =>
    /\ ret.val \in {HVE_OK, HVE_ERROR}
    /\ Cardinality(Calls(ops, "avcodec_send_frame")) = 1
    /\ \A j \in Calls(ops, "avcodec_send_frame") :
         /\ ops[j][2] = "NULL"
         /\ ret.val = HVE_ERROR <=> IsNeg(ops[j][3])
         /\ \A i \in Calls(ops, "av_buffersrc_add_frame") : i < j /\ ops[i][2] = "NULL"
    /\ Cardinality(Calls(ops, "av_buffersrc_add_frame")) =
         IF h.filter_graph # NULL THEN 1 ELSE 0

\* the graph refused the mark, the call succeeded and the encoder is flushed
C17_Witness ==
  /\ FlushCall
  /\ h.filter_graph # NULL
  /\ \E i \in 1..Len(ops) : ops[i] = <<"av_buffersrc_add_frame", "NULL", EFAIL>>
  /\ ret.val = HVE_OK
  /\ enc.flushing

\* C18 (as stated): hve_send_frame(h, NULL) on a pipeline with a scaling
\* graph pulls what the graph still holds from the sink, after the
\* end-of-stream mark and before the encoder is flushed, so that nothing is
\* left in the graph
C18_FlushDrainsScaler ==
  (FlushCall /\ h.filter_graph # NULL) =>
    /\ \E k \in Calls(ops, "av_buffersink_get_frame") :
         /\ \A i \in Calls(ops, "av_buffersrc_add_frame") : i < k
         /\ \A j \in Calls(ops, "avcodec_send_frame") : ops[j][2] = "NULL" => k < j
    /\ ret.val = HVE_OK => scaler.buffered = 0

\* the encoder was flushed while the graph still held a surface, and the
\* sink was not pulled
C18_Witness ==
  /\ FlushCall
  /\ h.filter_graph # NULL
  /\ ret.val = HVE_OK
  /\ enc.flushing
  /\ scaler.buffered > 0
  /\ Calls(ops, "av_buffersink_get_frame") = {}

\* C19 (as stated): before any flush, whatever packets the caller has left
\* undrained, hve_send_frame with a frame whose upload succeeds and whose
\* backend calls do not fail hard returns HVE_OK, and the frame is taken by
\* the encoder
C19_SubmitBeforeDrainLegal ==
  (/\ ret.op = "hve_send_frame" /\ ret.frame # NULL
   /\ hist.flushes = 0
   /\ \E i \in 1..Len(ops) : ops[i] = <<"av_hwframe_transfer_data", OK>>
   /\ ~HardError(ops)) =>
    /\ ret.val = HVE_OK
    /\ \E j \in Calls(ops, "avcodec_send_frame") : ops[j][3] = OK

\* the encoder, full of undrained frames, asked to be drained first, and
\* hve_send_frame failed
C19_Witness ==
  /\ ret.op = "hve_send_frame" /\ ret.frame # NULL
  /\ hist.flushes = 0
  /\ \E j \in Calls(ops, "avcodec_send_frame") : ops[j][3] = EAGAIN
  /\ ret.val = HVE_ERROR
  /\ enc.queued = EncCapacity(enc)

\* C20: once hve_send_frame(h, NULL) has succeeded the encoder stays in its
\* flushing state: an hve_send_frame with a frame fails, the frame is not
\* taken by the encoder, and hve_receive_packet gives no packet for it
C20_NoReuseAfterFlush ==
  [][ (hist.flushed /\ handle' = "open") =>
        /\ enc'.flushing
        /\ enc'.queued <= enc.queued
        /\ (ret'.op = "hve_send_frame" /\ ret'.frame # NULL) =>
             /\ ret'.val = HVE_ERROR
             /\ enc' = enc
             /\ \A j \in Calls(ops', "avcodec_send_frame") : ops'[j][3] # OK
    ]_vars

\* a frame was sent after the flush and the encoder refused it
C20_Witness ==
  /\ handle = "open"
  /\ hist.flushed
  /\ ret.op = "hve_send_frame" /\ ret.frame # NULL
  /\ ret.val = HVE_ERROR
  /\ \E j \in Calls(ops, "avcodec_send_frame") : ops[j][3] = AVEOF
  /\ enc.flushing

\* frames accepted so far minus packets written, in the example's loop
LoopLag == hist.sends - loop.written

\* C21 (as stated): in the example's loop, before the flush and with no
\* error, the frames accepted minus the packets drained never exceed
\* max_b_frames + 1
C21_LagBoundAtAllTimes ==
  (loop.pc \in {"send", "receive"} /\ ~hist.errors) =>
    LoopLag <= config.max_b_frames + 1

\* C21 (amended): the same bound, each time the caller has drained until
\* hve_receive_packet returned nothing
C21_LagBound ==
  (loop.pc = "send" /\ ~hist.errors) =>
    LoopLag <= config.max_b_frames + 1

\* the caller has drained until nothing and the encoder holds back
\* max_b_frames + 1 frames
C21_Witness ==
  /\ loop.pc = "send"
  /\ ~hist.errors
  /\ hist.sends >= 2
  /\ LoopLag = config.max_b_frames + 1
  /\ enc.queued = LoopLag


\* the kind of upload failure a call's log shows: "surface" (no frame or no
\* surface could be had), "pool_handle" (a surface without hw_frames_ctx),
\* "transfer" (the copy to the surface failed), or "none"
UploadFailure(log) ==
  IF \E i \in Calls(log, "av_hwframe_get_buffer") : log[i][2] = EFAIL THEN "surface"
  ELSE IF \E i \in Calls(log, "av_hwframe_transfer_data") : log[i][2] = EFAIL THEN "transfer"
  ELSE IF Calls(log, "av_hwframe_get_buffer") = {} THEN "surface"
  ELSE IF Calls(log, "av_hwframe_transfer_data") = {} THEN "pool_handle"
  ELSE "none"

\* both pipelines have just returned from hve_send_frame with a frame
PairSent ==
  /\ twin.on
  /\ ret.op = "hve_send_frame" /\ ret.frame # NULL
  /\ twin.ret.op = "hve_send_frame"

\* C22: each kind of upload failure fails the call, and two calls that fail
\* in different kinds of upload failure return different values, so that
\* the caller can tell the kinds apart from what hve_send_frame returned
C22_UploadFailuresDistinct ==
  PairSent =>
    LET k1 == UploadFailure(ops)
        k2 == UploadFailure(twin.s.ops)
    IN  /\ (k1 # "none" => ret.val # HVE_OK)
        /\ (k1 # "none" /\ k2 # "none" /\ k1 # k2) => ret.val # twin.ret.val

\* one pipeline ran out of surfaces, the other failed in the transfer, and
\* both calls returned HVE_ERROR
C22_Witness ==
  /\ PairSent
  /\ UploadFailure(ops) = "surface"
  /\ UploadFailure(twin.s.ops) = "transfer"
  /\ ret.val = HVE_ERROR /\ twin.ret.val = HVE_ERROR
  /\ Calls(ops, "avcodec_send_frame") = {}


\* the entries of log that send a surface to the encoder
EncoderSends(log) == {i \in Calls(log, "avcodec_send_frame") : log[i][2] # "NULL"}

\* C23: a pipeline opened with input dimensions that differ from the
\* output's has a configured scaling graph, and in a session without
\* failures each hve_send_frame with a frame pushes that frame's surface
\* into the graph once and sends exactly one rescaled surface (fr_frame)
\* to the encoder during the call
C23_OneRescaledSurfacePerFrame ==
  /\ (handle = "open" /\ ScalingWanted(config)) =>
       /\ h.filter_graph # NULL /\ Graph(World).configured
       /\ h.fr_frame # NULL
  /\ (handle = "open" /\ ScalingWanted(config) /\ SentFrame(ret) /\ ~hist.errors) =>
       /\ Cardinality(Calls(ops, "av_buffersrc_add_frame")) = 1
       /\ Cardinality(EncoderSends(ops)) = 1
       /\ \A i \in EncoderSends(ops) : ops[i][2] = "fr_frame" /\ ops[i][3] = OK

\* a second frame went through the scaling graph of such a pipeline
C23_Witness ==
  /\ handle = "open" /\ ScalingWanted(config)
  /\ SentFrame(ret) /\ ~hist.errors
  /\ hist.sends = 2
  /\ \E i \in EncoderSends(ops) : ops[i][2] = "fr_frame"
  /\ enc.queued >= 1


\* the backend calls of a stage of hve_send_frame
StageCalls ==
  {"av_hwframe_get_buffer", "av_hwframe_transfer_data", "av_buffersrc_add_frame",
   "av_buffersink_get_frame", "avcodec_send_frame"}
IsStageCall(e) == e[1] \in StageCalls
Status(e) == e[Len(e)]
\* the entry is a stage call that failed; a pull that ends in "need more
\* input" or "end of stream" is how the pulls end, not a failure
FailedCall(e) ==
  /\ IsStageCall(e)
  /\ IsNeg(Status(e))
  /\ ~(e[1] = "av_buffersink_get_frame" /\ Status(e) \in {EAGAIN, AVEOF})
\* the surface was acquired, carries its pool and holds the caller's data
Uploaded(log) ==
  \E i \in Calls(log, "av_hwframe_transfer_data") : Status(log[i]) = OK

\* the last call was hve_send_frame with a frame
RealSend == ret.op = "hve_send_frame" /\ ret.frame # NULL

\* C24: hve_send_frame with a frame returns HVE_OK exactly when the upload
\* went through and no backend call of the scaling or encode stage failed,
\* and HVE_ERROR otherwise; the first failing call is the last backend call
\* of the call, and without an upload nothing reaches the graph or the encoder
C24_OkIffEveryStageSucceeded ==
  RealSend =>
    /\ ret.val \in {HVE_OK, HVE_ERROR}
    /\ ret.val = HVE_OK <=>
         (Uploaded(ops) /\ \A i \in 1..Len(ops) : ~FailedCall(ops[i]))
    /\ \A i \in 1..Len(ops) : FailedCall(ops[i]) =>
         \A j \in (i + 1)..Len(ops) : ~IsStageCall(ops[j])
    /\ ~Uploaded(ops) =>
         /\ Calls(ops, "avcodec_send_frame") = {}
         /\ Calls(ops, "av_buffersrc_add_frame") = {}
         /\ Calls(ops, "av_buffersink_get_frame") = {}
    /\ (h.filter_graph # NULL /\ ret.val = HVE_OK) =>
         \E i \in Calls(ops, "av_buffersink_get_frame") :
           /\ Status(ops[i]) \in {EAGAIN, AVEOF}
           /\ \A j \in (i + 1)..Len(ops) : ~IsStageCall(ops[j])

\* the transfer to the surface failed: the call returned HVE_ERROR and the
\* encoder was not called
C24_Witness ==
  /\ RealSend
  /\ ret.val = HVE_ERROR
  /\ \E i \in Calls(ops, "av_hwframe_transfer_data") : Status(ops[i]) = EFAIL
  /\ Calls(ops, "avcodec_send_frame") = {}
  /\ hist.sends >= 2


\* the log starts by giving back what the frame held and freeing the frame
StartsWithFree(log, frame) ==
  IF Deref(frame).buf
    THEN /\ Len(log) >= 3
         /\ log[1] = <<"release", "surface">>
         /\ log[2] = <<"av_frame_free", "hw_frame">>
         /\ log[3] = <<"release", "avframe">>
    ELSE /\ Len(log) >= 2
         /\ log[1] = <<"av_frame_free", "hw_frame">>
         /\ log[2] = <<"release", "avframe">>

\* C25: every hve_send_frame, with a frame or NULL, starts by freeing the
\* hardware frame of the previous call, before any backend call of the
\* upload, the graph or the encoder; after hve_send_frame(NULL) no hardware
\* frame and no surface is held; a frame left by a failed upload is freed
\* in the same way by the next hve_send_frame, and hve_close frees it
C25_PreviousSurfaceReleasedFirst ==
  [][ /\ (ret'.op = "hve_send_frame" /\ h.hw_frame # NULL) =>
           StartsWithFree(ops', h.hw_frame)
      /\ (ret'.op = "hve_send_frame" /\ h.hw_frame = NULL) =>
           \A i \in 1..Len(ops') : ops'[i] # <<"av_frame_free", "hw_frame">>
      /\ (ret'.op = "hve_send_frame" /\ ret'.frame = NULL) =>
           (h'.hw_frame = NULL /\ live'.surface = 0)
      /\ (ret'.op = "hve_send_frame" /\ ret'.frame # NULL) =>
           live'.surface = (IF h'.hw_frame # NULL /\ Deref(h'.hw_frame).buf THEN 1 ELSE 0)
      /\ (ret'.op = "hve_close" /\ h.hw_frame # NULL) =>
           (/\ \E i \in 1..Len(ops') : ops'[i] = <<"av_frame_free", "hw_frame">>
            /\ h'.hw_frame = NULL /\ live'.surface = 0)
    ]_vars

\* hve_send_frame(NULL) has freed the surface that the one earlier call, which
\* failed, had left behind
C25_Witness ==
  /\ FlushCall
  /\ hist.sends = 1 /\ hist.errors /\ enc.queued = 0
  /\ StartsWithFree(ops, Ptr([buf |-> TRUE]))
  /\ \E i \in Calls(ops, "avcodec_send_frame") : i > 3
  /\ h.hw_frame = NULL /\ live.surface = 0


\* the stage calls of log, in order
RECURSIVE StageLog(_)
StageLog(log) ==
  IF log = << >> THEN << >>
  ELSE IF IsStageCall(Head(log)) THEN <<Head(log)>> \o StageLog(Tail(log))
  ELSE StageLog(Tail(log))

\* the surface of the call was pushed into the graph
Pushed(log) == \E i \in Calls(log, "av_buffersrc_add_frame") : Status(log[i]) = OK
IsPull(e) == e[1] = "av_buffersink_get_frame"
IsSend(e) == e[1] = "avcodec_send_frame"

\* C26: once scale_encode has pushed the surface it pulls from the sink; a
\* pull that gives a surface is followed by sending it to the encoder and,
\* if that went well, by another pull; the first pull that gives nothing
\* ends the call, with HVE_OK if it answered "need more input" or "end of
\* stream" and with HVE_ERROR for any other error
C26_PullUntilFailure ==
  (RealSend /\ Pushed(ops)) =>
    LET c == StageLog(ops)
        n == Len(c)
    IN  /\ \E i \in 1..n : IsPull(c[i])
        /\ \A i \in 1..n : IsPull(c[i]) =>
             IF Status(c[i]) = OK
               THEN /\ i < n /\ IsSend(c[i + 1])
                    /\ Status(c[i + 1]) = OK => (i + 1 < n /\ IsPull(c[i + 2]))
               ELSE /\ i = n
                    /\ ret.val = (IF Status(c[i]) \in {EAGAIN, AVEOF}
                                    THEN HVE_OK ELSE HVE_ERROR)

\* the sink gave one surface and then answered "end of stream": the call
\* returned HVE_OK
C26_Witness ==
  /\ RealSend /\ Pushed(ops)
  /\ ret.val = HVE_OK
  /\ Cardinality(Calls(ops, "av_buffersink_get_frame")) = 2
  /\ Status(StageLog(ops)[Len(StageLog(ops))]) = AVEOF
  /\ \E i \in EncoderSends(ops) : Status(ops[i]) = OK


\* C27: in a pipeline with a scaling graph every surface the encoder is sent
\* is fr_frame, filled by the pull just before, and every surface pulled is
\* sent at once, so each goes to the encoder once and in pull order; the
\* uploaded surface (hw_frame) is never sent to the encoder; after an
\* encoder send that failed the call pulls and sends nothing more
C27_EncoderFedFromSinkOnly ==
  (handle = "open" /\ h.filter_graph # NULL /\ ret.op = "hve_send_frame") =>
    LET c == StageLog(ops)
        n == Len(c)
    IN  /\ \A i \in 1..n : IsSend(c[i]) =>
             IF ret.frame = NULL THEN c[i][2] = "NULL"
             ELSE /\ c[i][2] = "fr_frame"
                  /\ i > 1 /\ IsPull(c[i - 1]) /\ Status(c[i - 1]) = OK
        /\ \A i \in 1..n : (IsPull(c[i]) /\ Status(c[i]) = OK) =>
             (i < n /\ IsSend(c[i + 1]))
        /\ \A i \in 1..n : (IsSend(c[i]) /\ IsNeg(Status(c[i]))) => i = n

\* two surfaces were pulled in one call; the encoder took the first and
\* refused the second, which ended the call
C27_Witness ==
  /\ handle = "open" /\ h.filter_graph # NULL /\ RealSend
  /\ ret.val = HVE_ERROR
  /\ LET c == StageLog(ops)
     IN  /\ Len(c) >= 7
         /\ IsPull(c[4]) /\ IsSend(c[5]) /\ Status(c[5]) = OK
         /\ IsPull(c[6]) /\ IsSend(c[7]) /\ IsNeg(Status(c[7]))
         /\ Len(c) = 7


\* the state of the encode stage: "Idle" before the first frame, "Running"
\* once a frame was taken, "Flushing" once the flush was taken
EncodeState(e) ==
  IF e.flushing THEN "Flushing"
  ELSE IF e.queued + e.out > 0 THEN "Running"
  ELSE "Idle"

HwApi(fmt) == IF fmt = AV_PIX_FMT_CUDA THEN "cuda" ELSE "vaapi"

\* C29: the scaling graph works in the encoder's memory domain: the pixel
\* format the source node is created with is the format of the pool it is
\* bound to, which is the encoder's pool, and the format and scale filters
\* are those of that format's hardware API
C29_GraphInEncoderDomain ==
  (handle = "open" /\ h.filter_graph # NULL) =>
    LET src == Deref(Graph(World).src)
        desc == Deref(Graph(World).desc)
        pool == Deref(Deref(h.avctx).hw_frames_ctx)
    IN  /\ src.hw_frames_ctx = Deref(h.avctx).hw_frames_ctx
        /\ src.pix_fmt = pool.format
        /\ src.pix_fmt = Deref(h.avctx).pix_fmt
        /\ desc.format = HwApi(pool.format)
        /\ desc.scale = "scale_" \o HwApi(pool.format)

\* a configured graph whose source node is bound to the encoder's pool of
\* CUDA surfaces and declares VAAPI frames
C29_Witness ==
  /\ handle = "open" /\ h.filter_graph # NULL
  /\ Graph(World).configured
  /\ Deref(Graph(World).src).hw_frames_ctx = Deref(h.avctx).hw_frames_ctx
  /\ Deref(Deref(h.avctx).hw_frames_ctx).format = AV_PIX_FMT_CUDA
  /\ Deref(Graph(World).src).pix_fmt = AV_PIX_FMT_VAAPI
  /\ Deref(Graph(World).desc).scale = "scale_vaapi"


\* the encoder's pool and the staging frame of an open pipeline
Pool == Deref(Deref(h.avctx).hw_frames_ctx)
Staging == Deref(h.sw_frame)
\* the staging frame has the dimensions of the pool's surfaces
StagingAsPool == Staging.width = Pool.width /\ Staging.height = Pool.height

\* C30 (as stated): the pool has 20 surfaces, of input_width x input_height
\* when scaling is requested and of width x height when it is not, and the
\* staging frame has the pool's dimensions
C30_PoolSizedAsStated ==
  handle = "open" =>
    /\ Pool.initial_pool_size = 20
    /\ IF ScalingWanted(config)
         THEN Pool.width = config.input_width /\ Pool.height = config.input_height
         ELSE Pool.width = config.width /\ Pool.height = config.height
    /\ StagingAsPool

\* C30 (amended): the pool has 20 surfaces; each of its dimensions is the
\* input dimension when that is set (non-zero) and the output dimension
\* when it is not, so that without scaling the pool is width x height and
\* with both input dimensions set it is input_width x input_height; the
\* staging frame has the pool's dimensions
C30_PoolSized ==
  handle = "open" =>
    /\ Pool.initial_pool_size = 20
    /\ Pool.width = (IF config.input_width = 0 THEN config.width ELSE config.input_width)
    /\ Pool.height = (IF config.input_height = 0 THEN config.height ELSE config.input_height)
    /\ ~ScalingWanted(config) =>
         (Pool.width = config.width /\ Pool.height = config.height)
    /\ (config.input_width # 0 /\ config.input_height # 0) =>
         (Pool.width = config.input_width /\ Pool.height = config.input_height)
    /\ StagingAsPool

\* scaling was requested through the input width alone: the pool's surfaces
\* are input_width wide and as high as the output
C30_Witness ==
  /\ handle = "open"
  /\ ScalingWanted(config)
  /\ config.input_width = Width + 2 /\ config.input_height = 0
  /\ Pool.width = Width + 2 /\ Pool.height = Height
  /\ Pool.initial_pool_size = 20
  /\ StagingAsPool


\* the entries of log that hand the uploaded surface (hw_frame) to the next
\* stage: the push into the graph, or the send to the encoder
HandOffs(log) ==
  {i \in 1..Len(log) :
     /\ log[i][1] \in {"av_buffersrc_add_frame", "avcodec_send_frame"}
     /\ log[i][2] = "hw_frame"}

\* C31: a surface that hw_upload's caller hands to the graph or to the
\* encoder was acquired from the pool, carries its hw_frames_ctx and was
\* filled by a successful transfer, all of that before it is handed on; a
\* call whose upload failed in any step hands nothing on
C31_UploadGuarantee ==
  RealSend =>
    /\ \A i \in HandOffs(ops) :
         /\ \E j \in Calls(ops, "av_hwframe_get_buffer") : j < i /\ Status(ops[j]) = OK
         /\ \E j \in Calls(ops, "av_hwframe_transfer_data") : j < i /\ Status(ops[j]) = OK
         /\ h.hw_frame # NULL
         /\ Deref(h.hw_frame).buf
         /\ Deref(h.hw_frame).hw_frames_ctx
         /\ Deref(h.hw_frame).uploaded
    /\ (h.hw_frame = NULL \/ ~Deref(h.hw_frame).buf \/ ~Deref(h.hw_frame).hw_frames_ctx
          \/ ~Deref(h.hw_frame).uploaded) =>
         (HandOffs(ops) = {} /\ ret.val = HVE_ERROR)

\* a surface came from the pool without hw_frames_ctx: the call failed and
\* handed nothing on
C31_Witness ==
  /\ RealSend
  /\ h.hw_frame # NULL
  /\ Deref(h.hw_frame).buf /\ ~Deref(h.hw_frame).hw_frames_ctx
  /\ HandOffs(ops) = {}
  /\ ret.val = HVE_ERROR
  /\ hist.sends >= 2 /\ enc.queued >= 1


AcquireOf(kind) == <<"acquire", kind>>

\* if b is in log then a is, and the first a comes before the first b
FirstBefore(log, a, b) ==
  \A j \in 1..Len(log) : log[j] = b => \E i \in 1..(j - 1) : log[i] = a

\* hve_init acquires in the order: device context, encoder session (and
\* with it the pool), scaling graph, and the frames after the graph
AcquiredInOrder(log) ==
  /\ FirstBefore(log, AcquireOf("device"), AcquireOf("codec"))
  /\ FirstBefore(log, AcquireOf("codec"), AcquireOf("frames"))
  /\ FirstBefore(log, AcquireOf("frames"), AcquireOf("graph"))
  /\ FirstBefore(log, AcquireOf("codec"), AcquireOf("avframe"))
  /\ Before(log, AcquireOf("graph"), AcquireOf("avframe"))

\* the releases of log go in the reverse order: software staging frame,
\* filter staging frame, scaling graph, encoder session with the pool it
\* holds, and the device context last
ReleasedInReverse(log) ==
  /\ Before(log, FreeOf("sw_frame"), FreeOf("fr_frame"))
  /\ Before(log, FreeOf("fr_frame"), ReleaseOf("graph"))
  /\ Before(log, FreeOf("sw_frame"), ReleaseOf("graph"))
  /\ Before(log, ReleaseOf("graph"), ReleaseOf("codec"))
  /\ Before(log, FreeOf("fr_frame"), ReleaseOf("codec"))
  /\ Before(log, FreeOf("sw_frame"), ReleaseOf("codec"))
  /\ \A i \in 1..Len(log) : log[i] = ReleaseOf("codec") =>
       /\ \A j \in (i + 1)..Len(log) : log[j] # ReleaseOf("frames")
       /\ \E j \in (i + 1)..Len(log) : log[j] = ReleaseOf("device")
  /\ \A i \in 1..Len(log) : log[i] = ReleaseOf("graph") =>
       \E j \in (i + 1)..Len(log) : log[j] = ReleaseOf("device")
  /\ (\E i \in 1..Len(log) : log[i] = ReleaseOf("device")) => DeviceLast(log)

\* C32: hve_close, called by the caller or by hve_init on its failure path,
\* releases in the reverse of the order in which hve_init acquires: the
\* software staging frame, the filter staging frame, the scaling graph, the
\* encoder session with its pool, and the device context last, so that
\* nothing goes before what depends on it
C32_TeardownMirrorsAcquisition ==
  /\ (handle = "closed" /\ ret.op = "hve_close") => ReleasedInReverse(ops)
  /\ (handle = "failed" /\ ret.op = "hve_init") =>
       (AcquiredInOrder(ops) /\ ReleasedInReverse(ops))
  /\ (handle = "open" /\ ret.op = "hve_init") => AcquiredInOrder(ops)

\* hve_init failed at its last acquisition with a scaling graph built: the
\* filter staging frame, the graph, the session and the device were released
C32_Witness ==
  /\ handle = "failed" /\ ret.op = "hve_init"
  /\ fault = "sw_frame_alloc"
  /\ \A e \in {AcquireOf("graph"), FreeOf("fr_frame"), ReleaseOf("graph"),
               ReleaseOf("codec"), ReleaseOf("device")} :
       \E i \in 1..Len(ops) : ops[i] = e
  /\ TotalLive(live) = 0


\* C33: in every pipeline hve_init opened with a scaling graph, the
\* dimensions the graph's source node was created with are those of the
\* pool's surfaces and of the software staging frame, also when only one of
\* input_width and input_height asks for scaling
C33_SourceNodeSizedAsPool ==
  (handle = "open" /\ h.filter_graph # NULL) =>
    /\ Deref(Graph(World).src).video_size = <<Pool.width, Pool.height>>
    /\ Deref(Graph(World).src).video_size = <<Staging.width, Staging.height>>

\* scaling was asked for through input_width alone: the source node was
\* created with height 0 while the pool's surfaces and the staging frame
\* have the output's height
C33_Witness ==
  /\ handle = "open" /\ h.filter_graph # NULL
  /\ Graph(World).configured
  /\ config.input_width = Width + 2 /\ config.input_height = 0
  /\ Deref(Graph(World).src).video_size = <<Width + 2, 0>>
  /\ Pool.height = Height /\ Staging.height = Height
  /\ Deref(Graph(World).src).hw_frames_ctx = Deref(h.avctx).hw_frames_ctx


\* what the caller of hve_receive_packet sees: the pointer returned and the
\* error written
Observed(r) == <<r.pkt, r.error>>

\* C34: hve_receive_packet answers "need more input" and "end of stream"
\* with one and the same result, NULL with HVE_OK, and answers nothing else
\* with it: the result does not tell the caller which of the two it was
C34_EndOfStreamNotTold ==
  ret.op = "hve_receive_packet" =>
    (ret.status \in {EAGAIN, AVEOF} <=> Observed(ret) = <<NULL, HVE_OK>>)

\* the encoder was flushed and drained, and its "end of stream" came back as
\* NULL with HVE_OK
C34_Witness ==
  /\ ret.op = "hve_receive_packet"
  /\ ret.status = AVEOF
  /\ Observed(ret) = <<NULL, HVE_OK>>
  /\ hist.flushed /\ hist.eos
  /\ enc.out >= 1 /\ enc.queued = 0


\* what an open pipeline owns in world s: one device context (which the
\* graph's filters hold references to), one encoder session, one software
\* staging frame, and the filter staging frame exactly with the graph
OwnsItsParts(s) ==
  /\ s.h.hw_device_ctx # NULL
  /\ s.live.device = 1 + (IF s.h.filter_graph # NULL THEN Graph(s).dev_refs ELSE 0)
  /\ s.h.avctx # NULL /\ s.live.codec = 1
  /\ s.h.sw_frame # NULL
  /\ s.h.fr_frame # NULL <=> s.h.filter_graph # NULL
  /\ s.live.graph = (IF s.h.filter_graph # NULL THEN 1 ELSE 0)
  /\ s.live.avframe = 1 + (IF s.h.fr_frame # NULL THEN 1 ELSE 0)
                        + (IF s.h.hw_frame # NULL THEN 1 ELSE 0)

\* C35: an open pipeline owns one device context, one encoder session and
\* one software staging frame, and the filter staging frame exactly when it
\* has a scaling graph, after hve_init and after every hve_send_frame and
\* hve_receive_packet; these calls leave the graph, its nodes and the
\* staging frames in place, so a pipeline sends every frame the same way:
\* into the graph if it has one, and else to the encoder
C35_FixedShape ==
  [][ handle' = "open" =>
        /\ OwnsItsParts([h |-> h', live |-> live'])
        /\ handle = "open" =>
             /\ h'.filter_graph = h.filter_graph
             /\ h'.buffersrc_ctx = h.buffersrc_ctx
             /\ h'.buffersink_ctx = h.buffersink_ctx
             /\ h'.hw_device_ctx = h.hw_device_ctx
             /\ (h'.fr_frame = NULL) <=> (h.fr_frame = NULL)
             /\ (ret'.op = "hve_send_frame" /\ ret'.frame # NULL) =>
                  \A i \in HandOffs(ops') :
                    ops'[i][1] = (IF h.filter_graph # NULL
                                    THEN "av_buffersrc_add_frame"
                                    ELSE "avcodec_send_frame")
    ]_vars

\* a pipeline with a scaling graph has sent three frames through it and
\* given packets, and still has its graph and both staging frames
C35_Witness ==
  /\ handle = "open"
  /\ h.filter_graph # NULL /\ h.fr_frame # NULL /\ h.sw_frame # NULL
  /\ hist.sends = MaxFrames /\ enc.out >= 2
  /\ RealSend /\ ret.val = HVE_OK
  /\ \E i \in HandOffs(ops) : ops[i][1] = "av_buffersrc_add_frame"
  /\ live.codec = 1 /\ live.graph = 1


\* C36: hve_receive_packet does nothing but ask the encoder for a packet:
\* whatever the outcome, it makes the one call avcodec_receive_packet, and
\* of the pipeline only the packet changes; the surface in flight, the
\* software staging frame, the filter staging frame, the graph and what the
\* graph holds are as they were
C36_ReceiveTouchesPacketOnly ==
  [][ ret'.op = "hve_receive_packet" =>
        /\ h' = [h EXCEPT !.enc_pkt = h'.enc_pkt]
        /\ scaler' = scaler
        /\ live' = [live EXCEPT !.packet = live'.packet]
        /\ Cardinality(Calls(ops', "avcodec_receive_packet")) = 1
        /\ \A i \in 1..Len(ops') :
             \/ ops'[i][1] = "avcodec_receive_packet"
             \/ ops'[i] = ReleaseOf("packet")
             \/ ops'[i] = AcquireOf("packet")
        /\ enc'.flushing = enc.flushing /\ enc'.queued <= enc.queued
    ]_vars

\* a packet came out of a pipeline with a scaling graph while the surface of
\* the last frame was still in flight
C36_Witness ==
  /\ ret.op = "hve_receive_packet"
  /\ ret.pkt # NULL
  /\ h.filter_graph # NULL
  /\ h.hw_frame # NULL /\ Deref(h.hw_frame).buf
  /\ live.surface = 1 /\ live.packet = 1


\* the surfaces the frame of world field holds: one or none
Holds(frame) == IF frame # NULL /\ Deref(frame).buf THEN 1 ELSE 0
\* how many entries of log are e
Count(log, e) == Cardinality({i \in 1..Len(log) : log[i] = e})

\* C37: the surfaces the pipeline has acquired and not yet released are
\* those its frames hold, never fewer than none (nothing is released
\* twice); when hve_send_frame has returned, also after a failed encoder
\* send, fr_frame holds none and hw_frame at most one; hve_close after any
\* calls leaves none, so that every surface acquired was released once
C37_SurfacesReleasedOnce ==
  [][ /\ live'.surface >= 0
      /\ handle' = "open" =>
           /\ live'.surface = Holds(h'.hw_frame)
           /\ Holds(h'.fr_frame) = 0
           /\ handle = "open" =>
                live'.surface - live.surface =
                  Count(ops', AcquireOf("surface")) - Count(ops', ReleaseOf("surface"))
      /\ (handle = "open" /\ handle' = "closed") =>
           /\ live'.surface = 0
           /\ Count(ops', ReleaseOf("surface")) = live.surface
           /\ Count(ops', AcquireOf("surface")) = 0
    ]_vars

\* the encoder refused a rescaled surface: fr_frame gave it back and only
\* the uploaded surface is held
C37_Witness ==
  /\ handle = "open" /\ h.filter_graph # NULL
  /\ RealSend /\ ret.val = HVE_ERROR
  /\ \E i \in EncoderSends(ops) : ops[i][2] = "fr_frame" /\ IsNeg(Status(ops[i]))
  /\ Holds(h.fr_frame) = 0 /\ Holds(h.hw_frame) = 1
  /\ live.surface = 1
  /\ Count(ops, AcquireOf("surface")) = 2

====
